---------------------------- MODULE Spec2Model ----------------------------
(***************************************************************************)
(* A model of the network monitor's observation pipeline and policy        *)
(* engine: the Firewall Engine, the Protocol Classifier, the Connection    *)
(* Tracker, the Flow Inspector, the Traffic Analyzer and the driver's      *)
(* periodic tick (App::update_data).                                       *)
(*                                                                         *)
(* Every component is a record; every method is an operator from the old   *)
(* record (and the method's arguments) to the new one, so that the tick    *)
(* can compose them exactly as update_data does.  Option<T> is a sequence  *)
(* of length 0 (None) or 1 (Some).  Time is an integer number of clock units.*)
(***************************************************************************)
EXTENDS Integers, Sequences, FiniteSets, TLC

VARIABLES
    firewall_engine,     \* FirewallEngine (firewall/engine.rs); in SpecApp the
                         \* App's Option<FirewallEngine>
    connection_tracker,  \* ConnectionTracker with its ProtocolAnalyzer
    traffic_inspector,   \* TrafficInspector
    traffic_analyzer,    \* TrafficAnalyzer
    app,                 \* the App fields update_data reads and writes
    now,                 \* the clock (SystemTime::now / Instant::now)
    op,                  \* the last operation: its name, argument and result
    pushed,              \* history: everything ever pushed on each ring, the
                         \* last analysis that was computed afresh, and the
                         \* interface readings given to the collector
    steps                \* history: operations performed, per component

vars == <<firewall_engine, connection_tracker, traffic_inspector,
          traffic_analyzer, app, now, op, pushed, steps>>

-----------------------------------------------------------------------------
(* Option<T> *)

None == <<>>
Some(x) == <<x>>
IsSome(o) == o /= <<>>
Unwrap(o) == o[1]
UnwrapOr(o, d) == IF o = <<>> THEN d ELSE o[1]

Min(a, b) == IF a < b THEN a ELSE b
Max(a, b) == IF a < b THEN b ELSE a

\* The last n elements of s (all of s when it is shorter).
LastN(s, n) == IF Len(s) <= n THEN s ELSE SubSeq(s, Len(s) - n + 1, Len(s))

-----------------------------------------------------------------------------
(* Addresses.  An IP string is a sequence of decimal fields; it parses to   *)
(* an Ipv4Addr when it has four fields, each an octet.  The packet source   *)
(* and the proc source produce IPv4 addresses only.                         *)

IsOctets(s) == Len(s) = 4 /\ \A i \in 1..4 : s[i] \in 0..255
\* A plausible slip: text that does not parse, or a missing address, is
\* taken as the unspecified address 0.0.0.0 (unwrap_or).
parse_ip_or_unspecified(o) ==
    IF IsSome(o) /\ IsOctets(Unwrap(o)) THEN Some(Unwrap(o)) ELSE Some(<<0, 0, 0, 0>>)

\* str::parse::<IpAddr>() on an optional string (engine.rs: as_ref().and_then(parse.ok()))
parse_ip(o) == IF IsSome(o) /\ IsOctets(Unwrap(o)) THEN Some(Unwrap(o)) ELSE None

\* Ipv4Addr::is_loopback, is_private, link-local
is_local_ip(ip) ==
    \/ ip[1] = 127
    \/ ip[1] = 10
    \/ (ip[1] = 172 /\ ip[2] \in 16..31)
    \/ (ip[1] = 192 /\ ip[2] = 168)
    \/ (ip[1] = 169 /\ ip[2] = 254)

IpLoopback == <<127, 0, 0, 1>>
IpLan1     == <<192, 168, 1, 1>>
IpLan100   == <<192, 168, 1, 100>>
IpRemote   == <<8, 8, 8, 8>>
IpLinkLoc  == <<169, 254, 0, 7>>
IpBadText  == <<999, 1, 1, 1>>      \* "999.1.1.1": does not parse

Packet(proto, sip, sport, dip, dport, len) ==
    [protocol |-> proto, src_ip |-> sip, src_port |-> sport,
     dst_ip |-> dip, dst_port |-> dport, length |-> len]


-----------------------------------------------------------------------------
(* Time.  The clock counts units of 1/TicksPerSecond seconds, so that        *)
(* intervals shorter than a second exist.                                    *)

TicksPerSecond == 2

\* Duration::from_secs
from_secs(n) == n * TicksPerSecond

-----------------------------------------------------------------------------
(* Socket addresses *)

SocketAddr(ip, port) == [ip |-> ip, port |-> port]

\* format!("{}:{}", ip, port).parse::<SocketAddr>()
parse_socket_addr(ip_text, port) ==
    IF IsOctets(ip_text) THEN Some(SocketAddr(ip_text, port)) ELSE None

\* Ord for Ipv4Addr: octet by octet
IpLess(a, b) ==
    \E i \in 1..4 : a[i] < b[i] /\ \A j \in 1..(i - 1) : a[j] = b[j]

\* Ord for SocketAddrV4: the address, then the port
AddrLess(a, b) == IpLess(a.ip, b.ip) \/ (a.ip = b.ip /\ a.port < b.port)

\* Display for SocketAddrV4, "a.b.c.d:port", as its decimal fields
FormatAddr(a) == a.ip \o <<a.port>>

\* A plausible slip: the key keeps the order of its arguments.
connection_key_ordered(addr1, addr2) == FormatAddr(addr1) \o FormatAddr(addr2)

\* ConnectionTracker::connection_key: format!("{}:{}", lower, higher)
connection_key(addr1, addr2) ==
    IF AddrLess(addr1, addr2)
    THEN FormatAddr(addr1) \o FormatAddr(addr2)
    ELSE FormatAddr(addr2) \o FormatAddr(addr1)

\* TrafficInspector::generate_flow_id
generate_flow_id(src, dst) ==
    IF AddrLess(src, dst)
    THEN FormatAddr(src) \o FormatAddr(dst)
    ELSE FormatAddr(dst) \o FormatAddr(src)

-----------------------------------------------------------------------------
(* Maps (HashMap) are functions; the empty map is the empty function. *)

EmptyMap == <<>>
MapPut(m, k, v) == [x \in DOMAIN m \cup {k} |-> IF x = k THEN v ELSE m[x]]
MapRetain(m, keys) == [x \in DOMAIN m \cap keys |-> m[x]]
MapRemove(m, keys) == [x \in DOMAIN m \ keys |-> m[x]]
MapValues(m) == {m[x] : x \in DOMAIN m}

-----------------------------------------------------------------------------
(* Protocol classifier (analysis/protocols.rs).  A ProtocolType is a tuple:  *)
(* <<"Http">>, ..., <<"Tcp", port>>, <<"Udp", port>>, <<"Icmp">>,            *)
(* <<"Unknown">>.                                                            *)

\* ProtocolAnalyzer::initialize_well_known_ports
well_known_ports ==
    [port \in {80, 8080, 443, 8443, 22, 53, 21, 20, 25, 587, 110, 995, 143, 993, 23} |->
        CASE port \in {80, 8080} -> <<"Http">>
          [] port \in {443, 8443} -> <<"Https">>
          [] port = 22 -> <<"Ssh">>
          [] port = 53 -> <<"Dns">>
          [] port \in {21, 20} -> <<"Ftp">>
          [] port \in {25, 587} -> <<"Smtp">>
          [] port \in {110, 995} -> <<"Pop3">>
          [] port \in {143, 993} -> <<"Imap">>
          [] port = 23 -> <<"Telnet">>]

\* Option::or
OptionOr(a, b) == IF IsSome(a) THEN a ELSE b

\* A plausible slip: the source port is consulted before the destination
\* port.
identify_by_ports_src_first(packet, variant) ==
    IF IsSome(packet.src_port) /\ Unwrap(packet.src_port) \in DOMAIN well_known_ports
    THEN well_known_ports[Unwrap(packet.src_port)]
    ELSE IF IsSome(packet.dst_port)
            /\ Unwrap(packet.dst_port) \in DOMAIN well_known_ports
    THEN well_known_ports[Unwrap(packet.dst_port)]
    ELSE IF IsSome(OptionOr(packet.src_port, packet.dst_port))
    THEN <<variant, Unwrap(OptionOr(packet.src_port, packet.dst_port))>>
    ELSE <<"Unknown">>

\* The "TCP" and "UDP" arms of identify_protocol, which differ in the
\* variant they fall back to.
identify_by_ports(packet, variant) ==
    IF IsSome(packet.dst_port) /\ Unwrap(packet.dst_port) \in DOMAIN well_known_ports
    THEN well_known_ports[Unwrap(packet.dst_port)]
    ELSE IF IsSome(packet.src_port)
            /\ Unwrap(packet.src_port) \in DOMAIN well_known_ports
    THEN well_known_ports[Unwrap(packet.src_port)]
    ELSE IF IsSome(OptionOr(packet.dst_port, packet.src_port))
    THEN <<variant, Unwrap(OptionOr(packet.dst_port, packet.src_port))>>
    ELSE <<"Unknown">>

\* ProtocolAnalyzer::identify_protocol
identify_protocol(packet) ==
    CASE packet.protocol = "TCP" -> identify_by_ports(packet, "Tcp")
      [] packet.protocol = "UDP" -> identify_by_ports(packet, "Udp")
      [] packet.protocol = "ICMP" -> <<"Icmp">>
      [] OTHER -> <<"Unknown">>

\* ProtocolAnalyzer::new.  The description, is_encrypted and default_port of
\* a ProtocolInfo are fixed by its protocol type and are left out.
NewProtocolAnalyzer == [protocol_stats |-> EmptyMap]
\* The map's entry for the protocol is replaced by a fresh record
analyze_packet_fresh_record(pa, packet) ==
    LET protocol_type == identify_protocol(packet)
    IN  [analyzer |->
            [pa EXCEPT !.protocol_stats =
                MapPut(@, protocol_type,
                       [packet_count |-> 1, byte_count |-> packet.length])],
         ret |-> protocol_type]

\* ProtocolAnalyzer::analyze_packet
analyze_packet(pa, packet) ==
    LET protocol_type == identify_protocol(packet)
        info == IF protocol_type \in DOMAIN pa.protocol_stats
                THEN pa.protocol_stats[protocol_type]
                ELSE [packet_count |-> 0, byte_count |-> 0]
    IN  [analyzer |->
            [pa EXCEPT !.protocol_stats =
                MapPut(@, protocol_type,
                       [packet_count |-> info.packet_count + 1,
                        byte_count |-> info.byte_count + packet.length])],
         ret |-> protocol_type]

\* ProtocolAnalyzer::reset_statistics
reset_statistics(pa) == [pa EXCEPT !.protocol_stats = EmptyMap]

\* ProtocolAnalyzer::get_total_packets and get_total_bytes
RECURSIVE SumOver(_, _)
SumOver(f, keys) ==
    IF keys = {} THEN 0
    ELSE LET k == CHOOSE x \in keys : TRUE
         IN  f[k] + SumOver(f, keys \ {k})
get_total_packets(pa) ==
    SumOver([k \in DOMAIN pa.protocol_stats |-> pa.protocol_stats[k].packet_count],
            DOMAIN pa.protocol_stats)
get_total_bytes(pa) ==
    SumOver([k \in DOMAIN pa.protocol_stats |-> pa.protocol_stats[k].byte_count],
            DOMAIN pa.protocol_stats)

-----------------------------------------------------------------------------
(* The /proc/net parser (capture/proc_parser.rs).  A text is a sequence of  *)
(* one-character strings.                                                    *)

\* char::to_digit(16)
HexDigits ==
    [c \in {"0", "1", "2", "3", "4", "5", "6", "7", "8", "9",
            "A", "B", "C", "D", "E", "F", "a", "b", "c", "d", "e", "f"} |->
        CASE c = "0" -> 0 [] c = "1" -> 1 [] c = "2" -> 2 [] c = "3" -> 3
          [] c = "4" -> 4 [] c = "5" -> 5 [] c = "6" -> 6 [] c = "7" -> 7
          [] c = "8" -> 8 [] c = "9" -> 9
          [] c \in {"A", "a"} -> 10 [] c \in {"B", "b"} -> 11
          [] c \in {"C", "c"} -> 12 [] c \in {"D", "d"} -> 13
          [] c \in {"E", "e"} -> 14 [] c \in {"F", "f"} -> 15]

\* The value of a run of hex digits, most significant first; a value above
\* max is reported as max + 1 (checked_mul and checked_add failing).
RECURSIVE HexValue(_, _, _)
HexValue(digits, acc, max) ==
    IF digits = <<>> THEN acc
    ELSE HexValue(Tail(digits),
                  Min(16 * acc + HexDigits[Head(digits)], max + 1), max)

\* A plausible slip: a leading sign is refused.
from_str_radix_unsigned_only(text, max) ==
    IF text = <<>> THEN None
    ELSE IF \E i \in 1..Len(text) : text[i] \notin DOMAIN HexDigits THEN None
    ELSE IF HexValue(text, 0, max) > max THEN None
    ELSE Some(HexValue(text, 0, max))

\* u8::from_str_radix(text, 16) and u16::from_str_radix(text, 16), max being
\* the type's largest value: an optional "+", then at least one digit, and
\* an error when the value does not fit.
from_str_radix(text, max) ==
    LET digits == IF text # <<>> /\ Head(text) = "+" THEN Tail(text) ELSE text
    IN  IF digits = <<>> THEN None
        ELSE IF \E i \in 1..Len(digits) : digits[i] \notin DOMAIN HexDigits
        THEN None
        ELSE IF HexValue(digits, 0, max) > max THEN None
        ELSE Some(HexValue(digits, 0, max))

\* str::split(':'): the parts between the colons
RECURSIVE split_colon(_, _)
split_colon(text, part) ==
    IF text = <<>> THEN <<part>>
    ELSE IF Head(text) = ":" THEN <<part>> \o split_colon(Tail(text), <<>>)
    ELSE split_colon(Tail(text), Append(part, Head(text)))

\* ProcNetParser::parse_address
parse_address(addr_str) ==
    LET parts == split_colon(addr_str, <<>>)
    IN  IF Len(parts) # 2 THEN None
        ELSE IF Len(parts[1]) # 8 THEN None
        ELSE
          LET ip_hex == parts[1]
              ip_bytes == [i \in 1..4 |->
                              from_str_radix(SubSeq(ip_hex, 2 * i - 1, 2 * i), 255)]
          IN  IF \E i \in 1..4 : ~IsSome(ip_bytes[i]) THEN None
              ELSE
                LET ip == <<Unwrap(ip_bytes[4]), Unwrap(ip_bytes[3]),
                            Unwrap(ip_bytes[2]), Unwrap(ip_bytes[1])>>
                    port == from_str_radix(parts[2], 65535)
                IN  IF ~IsSome(port) THEN None
                    ELSE Some(SocketAddr(ip, Unwrap(port)))

\* A plausible slip: the state CLOSING, the last one the kernel numbers, is
\* left out.
parse_tcp_state_without_closing(state) ==
    CASE state = 1 -> <<"Established">>
      [] state = 2 -> <<"SynSent">>
      [] state = 3 -> <<"SynRecv">>
      [] state = 4 -> <<"FinWait1">>
      [] state = 5 -> <<"FinWait2">>
      [] state = 6 -> <<"TimeWait">>
      [] state = 7 -> <<"Close">>
      [] state = 8 -> <<"CloseWait">>
      [] state = 9 -> <<"LastAck">>
      [] state = 10 -> <<"Listen">>
      [] OTHER -> <<"Unknown", state>>

\* ProcNetParser::parse_tcp_state
parse_tcp_state(state) ==
    CASE state = 1 -> <<"Established">>
      [] state = 2 -> <<"SynSent">>
      [] state = 3 -> <<"SynRecv">>
      [] state = 4 -> <<"FinWait1">>
      [] state = 5 -> <<"FinWait2">>
      [] state = 6 -> <<"TimeWait">>
      [] state = 7 -> <<"Close">>
      [] state = 8 -> <<"CloseWait">>
      [] state = 9 -> <<"LastAck">>
      [] state = 10 -> <<"Listen">>
      [] state = 11 -> <<"Closing">>
      [] OTHER -> <<"Unknown", state>>

-----------------------------------------------------------------------------
(* Connection tracker (analysis/connections.rs).  process_id and             *)
(* process_name are never set and are left out.  A TcpState is a tuple:      *)
(* <<"Established">>, ..., <<"Unknown", byte>>.                              *)

\* The tracker's configuration (ConnectionTracker::with_config): the cap on
\* active connections (1000 in new) and the idle timeout in seconds (300 in
\* new), scaled down so that eviction happens within the explored runs.
CtMaxConnections == 2
CtTimeoutSecs == 1

TcpConnection(local, remote, state) ==
    [local_addr |-> local, remote_addr |-> remote, state |-> state]

\* ConnectionTracker::with_config
NewConnectionTracker ==
    [active_connections |-> EmptyMap,
     protocol_analyzer |-> NewProtocolAnalyzer,
     connection_timeout |-> from_secs(CtTimeoutSecs),
     max_connections |-> CtMaxConnections]

\* ConnectionTracker::convert_tcp_state
convert_tcp_state(tcp_state) ==
    CASE tcp_state[1] = "Established" -> "Established"
      [] tcp_state[1] \in {"SynSent", "SynRecv"} -> "Establishing"
      [] tcp_state[1] \in {"FinWait1", "FinWait2", "TimeWait", "CloseWait",
                           "LastAck", "Closing"} -> "Closing"
      [] tcp_state[1] = "Close" -> "Closed"
      [] tcp_state[1] = "Listen" -> "Established"
      [] tcp_state[1] = "Unknown" -> "Unknown"
\* A plausible slip: the dummy packet carries the length of a bare TCP
\* segment instead of 0.
dummy_packet_bare_segment(tcp_conn) ==
    Packet("TCP", Some(tcp_conn.local_addr.ip), Some(tcp_conn.local_addr.port),
           Some(tcp_conn.remote_addr.ip), Some(tcp_conn.remote_addr.port), 40)

\* The dummy packet of identify_protocol_from_connection (and the synthetic
\* packet update_data builds from a proc connection): length 0, TCP.
dummy_packet(tcp_conn) ==
    Packet("TCP", Some(tcp_conn.local_addr.ip), Some(tcp_conn.local_addr.port),
           Some(tcp_conn.remote_addr.ip), Some(tcp_conn.remote_addr.port), 0)

\* ConnectionTracker::identify_protocol_from_connection
identify_protocol_from_connection(pa, tcp_conn) ==
    analyze_packet(pa, dummy_packet(tcp_conn))

\* The keys cleanup_old_connections may remove to get back under the cap:
\* the first to_remove entries of the map's entries sorted by last_seen.  The
\* sort is stable over the map's iteration order, which is arbitrary, so
\* among entries of equal last_seen any may come first.
cap_evictions(conns, max_connections) ==
    IF Cardinality(DOMAIN conns) > max_connections
    THEN {K \in SUBSET DOMAIN conns :
            /\ Cardinality(K) = Cardinality(DOMAIN conns) - max_connections
            /\ \A k \in K : \A x \in DOMAIN conns \ K :
                   conns[k].last_seen <= conns[x].last_seen}
    ELSE {{}}

\* The entries the timeout pass of cleanup_old_connections keeps: those whose
\* age is below the timeout, and those whose age cannot be determined.
timeout_keeps(conn, t, timeout) ==
    IF t >= conn.last_seen THEN t - conn.last_seen < timeout ELSE TRUE

\* ConnectionTracker::cleanup_old_connections: the set of maps it may leave,
\* each with the keys the cap removed.
cleanup_old_connections(conns, t, timeout, max_connections) ==
    LET kept == MapRetain(conns, {k \in DOMAIN conns :
                                     timeout_keeps(conns[k], t, timeout)})
    IN  {[conns |-> MapRemove(kept, K), evicted |-> K] :
            K \in cap_evictions(kept, max_connections)}

\* A plausible slip: the entries missing from /proc are not dropped.
retain_everything(conns, proc_keys) == conns

\* update_from_proc's reconciliation: retain(|key, _| proc_keys.contains(key))
retain_proc_keys(conns, proc_keys) == MapRetain(conns, proc_keys)

\* The upsert loop of update_from_proc over tcp_connections.
RECURSIVE upsert_proc(_, _, _)
upsert_proc(ct, list, t) ==
    IF list = <<>> THEN ct
    ELSE
      LET tcp_conn == Head(list)
          key == connection_key(tcp_conn.local_addr, tcp_conn.remote_addr)
          r == identify_protocol_from_connection(ct.protocol_analyzer, tcp_conn)
          fresh == [local_addr |-> tcp_conn.local_addr,
                    remote_addr |-> tcp_conn.remote_addr,
                    protocol |-> r.ret,
                    state |-> convert_tcp_state(tcp_conn.state),
                    established_time |-> t, last_seen |-> t,
                    bytes_sent |-> 0, bytes_received |-> 0,
                    packets_sent |-> 0, packets_received |-> 0]
          entry == IF key \in DOMAIN ct.active_connections
                   THEN ct.active_connections[key] ELSE fresh
          updated == [entry EXCEPT !.state = convert_tcp_state(tcp_conn.state),
                                   !.last_seen = t,
                                   !.protocol = r.ret]
      IN  upsert_proc([ct EXCEPT !.protocol_analyzer = r.analyzer,
                                 !.active_connections = MapPut(@, key, updated)],
                      Tail(list), t)

\* The keys of a proc snapshot.
proc_keys_of(tcp_connections) ==
    {connection_key(tcp_connections[i].local_addr, tcp_connections[i].remote_addr) :
        i \in 1..Len(tcp_connections)}

\* ConnectionTracker::update_from_proc.  Gives the trackers it may leave,
\* each with the keys dropped by the reconciliation and by the cap.
update_from_proc(ct, tcp_connections, t) ==
    LET proc_keys == proc_keys_of(tcp_connections)
        retained == retain_proc_keys(ct.active_connections, proc_keys)
        ct1 == upsert_proc([ct EXCEPT !.active_connections = retained],
                           tcp_connections, t)
    IN  {[tracker |-> [ct1 EXCEPT !.active_connections = c.conns],
          dropped |-> DOMAIN ct.active_connections \ DOMAIN retained,
          evicted |-> c.evicted] :
            c \in cleanup_old_connections(ct1.active_connections, t,
                                          ct1.connection_timeout,
                                          ct1.max_connections)}
\* A plausible slip: a packet sent by the entry's remote endpoint is counted
\* as received.
track_packet_by_endpoint(ct, packet, t) ==
    IF ~(IsSome(packet.src_ip) /\ IsSome(packet.dst_ip)
         /\ IsSome(packet.src_port) /\ IsSome(packet.dst_port))
    THEN ct
    ELSE
      LET src == parse_socket_addr(Unwrap(packet.src_ip), Unwrap(packet.src_port))
          dst == parse_socket_addr(Unwrap(packet.dst_ip), Unwrap(packet.dst_port))
      IN  IF ~(IsSome(src) /\ IsSome(dst)) THEN ct
          ELSE
            LET key == connection_key(Unwrap(src), Unwrap(dst))
                r == analyze_packet(ct.protocol_analyzer, packet)
                fresh == [local_addr |-> Unwrap(src), remote_addr |-> Unwrap(dst),
                          protocol |-> r.ret, state |-> "Established",
                          established_time |-> t, last_seen |-> t,
                          bytes_sent |-> 0, bytes_received |-> 0,
                          packets_sent |-> 0, packets_received |-> 0]
                entry == IF key \in DOMAIN ct.active_connections
                         THEN ct.active_connections[key] ELSE fresh
                updated == IF entry.local_addr = Unwrap(src)
                           THEN [entry EXCEPT !.packets_sent = @ + 1,
                                              !.bytes_sent = @ + packet.length,
                                              !.last_seen = t,
                                              !.protocol = r.ret]
                           ELSE [entry EXCEPT !.packets_received = @ + 1,
                                              !.bytes_received = @ + packet.length,
                                              !.last_seen = t,
                                              !.protocol = r.ret]
            IN  [ct EXCEPT !.protocol_analyzer = r.analyzer,
                           !.active_connections = MapPut(@, key, updated)]

\* ConnectionTracker::track_packet
track_packet(ct, packet, t) ==
    IF ~(IsSome(packet.src_ip) /\ IsSome(packet.dst_ip)
         /\ IsSome(packet.src_port) /\ IsSome(packet.dst_port))
    THEN ct
    ELSE
      LET src == parse_socket_addr(Unwrap(packet.src_ip), Unwrap(packet.src_port))
          dst == parse_socket_addr(Unwrap(packet.dst_ip), Unwrap(packet.dst_port))
      IN  IF ~(IsSome(src) /\ IsSome(dst)) THEN ct
          ELSE
            LET key == connection_key(Unwrap(src), Unwrap(dst))
                r == analyze_packet(ct.protocol_analyzer, packet)
                fresh == [local_addr |-> Unwrap(src), remote_addr |-> Unwrap(dst),
                          protocol |-> r.ret, state |-> "Established",
                          established_time |-> t, last_seen |-> t,
                          bytes_sent |-> 0, bytes_received |-> 0,
                          packets_sent |-> 0, packets_received |-> 0]
                entry == IF key \in DOMAIN ct.active_connections
                         THEN ct.active_connections[key] ELSE fresh
                updated == [entry EXCEPT !.packets_sent = @ + 1,
                                         !.bytes_sent = @ + packet.length,
                                         !.last_seen = t,
                                         !.protocol = r.ret]
            IN  [ct EXCEPT !.protocol_analyzer = r.analyzer,
                           !.active_connections = MapPut(@, key, updated)]

\* ConnectionTracker::get_connection_count
get_connection_count(ct) == Cardinality(DOMAIN ct.active_connections)

-----------------------------------------------------------------------------
(* Firewall rules (firewall/rules.rs).  description and created_at are not  *)
(* read by the engine and are left out.                                     *)

\* FirewallRule::new followed by the with_* builders
Rule(id, name, action, direction, protocol, sips, dips, sports, dports, prio) ==
    [id |-> id, name |-> name, enabled |-> TRUE, action |-> action,
     direction |-> direction, protocol |-> protocol,
     source_ips |-> sips, destination_ips |-> dips,
     source_ports |-> sports, destination_ports |-> dports,
     priority |-> prio, last_matched |-> None, match_count |-> 0]

\* RuleTemplates
allow_ssh ==
    Rule(2, "Allow SSH", "Allow", "Inbound", "TCP",
         None, None, None, Some({22}), 250)
allow_http_https ==
    Rule(3, "Allow HTTP/HTTPS", "Allow", "Inbound", "TCP",
         None, None, None, Some({80, 443}), 240)
block_suspicious_ports ==
    Rule(4, "Block Suspicious Ports", "LogAndBlock", "Bidirectional", "Any",
         None, None, None,
         Some({1433, 1521, 3306, 5432, 135, 139, 445, 23, 21}), 220)
allow_localhost ==
    Rule(5, "Allow Localhost", "Allow", "Bidirectional", "Any",
         Some({IpLoopback}), Some({IpLoopback}), None, None, 255)
log_all_connections ==
    Rule(6, "Log All Connections", "Log", "Bidirectional", "Any",
         None, None, None, None, 1)
block_all_incoming ==
    Rule(1, "Block All Incoming", "Block", "Inbound", "Any",
         None, None, None, None, 200)

\* A plausible slip: the source ports are not checked.
matches_packet_any_source_port(rule, src_ip, dst_ip, src_port, dst_port, protocol, direction) ==
    /\ rule.enabled
    /\ rule.protocol = "Any" \/ rule.protocol = protocol
    /\ rule.direction = "Bidirectional" \/ rule.direction = direction
    /\ IsSome(rule.source_ips) => src_ip \in Unwrap(rule.source_ips)
    /\ IsSome(rule.destination_ips) => dst_ip \in Unwrap(rule.destination_ips)
    /\ IsSome(rule.destination_ports) => dst_port \in Unwrap(rule.destination_ports)

\* FirewallRule::matches_packet
matches_packet(rule, src_ip, dst_ip, src_port, dst_port, protocol, direction) ==
    IF ~rule.enabled THEN FALSE
    ELSE IF rule.protocol /= "Any" /\ rule.protocol /= protocol THEN FALSE
    ELSE IF ~(rule.direction = "Bidirectional" \/ rule.direction = direction)
         THEN FALSE
    ELSE IF IsSome(rule.source_ips) /\ src_ip \notin Unwrap(rule.source_ips)
         THEN FALSE
    ELSE IF IsSome(rule.destination_ips)
            /\ dst_ip \notin Unwrap(rule.destination_ips)
         THEN FALSE
    ELSE IF IsSome(rule.source_ports) /\ src_port \notin Unwrap(rule.source_ports)
         THEN FALSE
    ELSE IF IsSome(rule.destination_ports)
            /\ dst_port \notin Unwrap(rule.destination_ports)
         THEN FALSE
    ELSE TRUE

\* A plausible slip: the match is timestamped but not counted.
record_match_uncounted(rule, t) == [rule EXCEPT !.last_matched = Some(t)]

\* FirewallRule::record_match
record_match(rule, t) ==
    [rule EXCEPT !.last_matched = Some(t), !.match_count = @ + 1]

-----------------------------------------------------------------------------
(* Firewall engine (firewall/engine.rs) *)

\* The event ring's capacity, max_events (1000 in FirewallEngine::new),
\* scaled down so that the ring overflows within the explored runs.
FwMaxEvents == 2

\* FirewallStats::new
NewFirewallStats(t) ==
    [total_packets_processed |-> 0, packets_allowed |-> 0,
     packets_blocked |-> 0, packets_logged |-> 0, rules_matched |-> 0,
     active_rules |-> 0, enabled_rules |-> 0, last_reset |-> t]

\* FirewallEngine::new
NewFirewallEngine(t) ==
    [rules |-> <<>>, stats |-> NewFirewallStats(t), recent_events |-> <<>>,
     max_events |-> FwMaxEvents, rule_counter |-> 0, enabled |-> TRUE]

\* FirewallEngine::update_stats
update_stats(e) ==
    [e EXCEPT !.stats.active_rules = Len(e.rules),
              !.stats.enabled_rules =
                  Cardinality({i \in 1..Len(e.rules) : e.rules[i].enabled})]

\* The least member of a set of indices, 0 when it is empty: what
\* Iterator::position gives (1-based) for the indices satisfying a predicate.
FirstIndex(S) == IF S = {} THEN 0 ELSE CHOOSE i \in S : \A j \in S : i <= j

\* A plausible slip: "<=" puts a rule before the rules of its own priority.
insert_pos_unstable(rules, rule) ==
    LET p == FirstIndex({i \in 1..Len(rules) : rules[i].priority <= rule.priority})
    IN  IF p = 0 THEN Len(rules) + 1 ELSE p

\* add_rule's insert position: position(|r| r.priority < rule.priority)
\* .unwrap_or(len)
insert_pos(rules, rule) ==
    LET p == FirstIndex({i \in 1..Len(rules) : rules[i].priority < rule.priority})
    IN  IF p = 0 THEN Len(rules) + 1 ELSE p

\* rules.iter().position(|r| r.id == rule_id), 0 when there is none
position_of_id(rules, rule_id) ==
    FirstIndex({i \in 1..Len(rules) : rules[i].id = rule_id})

\* Vec::insert at 1-based position p
InsertAt(s, p, x) == SubSeq(s, 1, p - 1) \o <<x>> \o SubSeq(s, p, Len(s))
\* Vec::remove at 1-based position p
RemoveAt(s, p) == SubSeq(s, 1, p - 1) \o SubSeq(s, p + 1, Len(s))
\* A plausible slip: the rule keeps the id it came with.
add_rule_keeping_id(e, rule) ==
    update_stats([e EXCEPT !.rule_counter = e.rule_counter + 1,
                           !.rules = InsertAt(@, insert_pos(@, rule), rule)])

\* FirewallEngine::add_rule; the returned id is the new rule_counter
add_rule(e, rule) ==
    LET counter == e.rule_counter + 1
        r == [rule EXCEPT !.id = counter]
    IN  update_stats([e EXCEPT !.rule_counter = counter,
                               !.rules = InsertAt(@, insert_pos(@, r), r)])

\* FirewallEngine::remove_rule
remove_rule(e, rule_id) ==
    LET pos == position_of_id(e.rules, rule_id)
    IN  IF pos /= 0
        THEN [engine |-> update_stats([e EXCEPT !.rules = RemoveAt(@, pos)]),
              ret |-> TRUE]
        ELSE [engine |-> e, ret |-> FALSE]

\* FirewallEngine::enable_rule and disable_rule
set_rule_enabled(e, rule_id, flag) ==
    LET pos == position_of_id(e.rules, rule_id)
    IN  IF pos /= 0
        THEN [engine |-> update_stats([e EXCEPT !.rules[pos].enabled = flag]),
              ret |-> TRUE]
        ELSE [engine |-> e, ret |-> FALSE]
enable_rule(e, rule_id) == set_rule_enabled(e, rule_id, TRUE)
disable_rule(e, rule_id) == set_rule_enabled(e, rule_id, FALSE)

\* FirewallEngine::clear_events, reset_stats, set_enabled
clear_events(e) == [e EXCEPT !.recent_events = <<>>]
reset_stats(e, t) == [e EXCEPT !.stats = NewFirewallStats(t)]
set_enabled(e, flag) == [e EXCEPT !.enabled = flag]

\* FirewallEngine::load_default_rules
load_default_rules(e) ==
    add_rule(add_rule(add_rule(add_rule(add_rule(e,
        allow_localhost), allow_ssh), allow_http_https),
        block_suspicious_ports), log_all_connections)

\* FirewallEngine::import_rules: the text either fails to deserialize
\* (None: nothing changes) or yields a list added rule by rule.
RECURSIVE add_rules(_, _)
add_rules(e, list) ==
    IF list = <<>> THEN e ELSE add_rules(add_rule(e, Head(list)), Tail(list))
import_rules(e, parsed) ==
    IF IsSome(parsed)
    THEN [engine |-> add_rules(e, Unwrap(parsed)),
          ret |-> Some(Len(Unwrap(parsed)))]
    ELSE [engine |-> e, ret |-> None]

\* packet.protocol.as_str() mapped to a RuleProtocol
rule_protocol(tag) == IF tag \in {"TCP", "UDP", "ICMP"} THEN tag ELSE "Any"

\* the direction process_packet derives from the source address
packet_direction(src_ip) == IF is_local_ip(src_ip) THEN "Outbound" ELSE "Inbound"

\* A plausible slip: the ring drops its newest entry instead of its oldest.
ring_push_drop_newest(ring, item, cap) ==
    IF Len(ring) + 1 > cap THEN ring ELSE ring \o <<item>>

\* push_back, then pop_front when the length exceeds the capacity
ring_push(ring, item, cap) ==
    LET r == ring \o <<item>> IN IF Len(r) > cap THEN Tail(r) ELSE r

\* A plausible slip: a matching Log rule ends the walk, so the packet falls
\* through to the default.
log_ends_walk(e, i) == Len(e.rules) + 1

\* The rule the loop goes on with after a matching Log rule ("Continue to
\* next rule").
log_next_rule(e, i) == i + 1

\* The loop of process_packet over self.rules from index i on.  Returns the
\* engine, the action returned and the events pushed (in order).
RECURSIVE check_rules(_, _, _, _, _, _)
check_rules(e, i, f, len, t, out) ==
    IF i > Len(e.rules)
    THEN [engine |-> [e EXCEPT !.stats.packets_allowed = @ + 1],
          ret |-> "Allow", events |-> out]
    ELSE IF ~matches_packet(e.rules[i], f.src_ip, f.dst_ip, f.src_port,
                            f.dst_port, f.protocol, f.direction)
    THEN check_rules(e, i + 1, f, len, t, out)
    ELSE
      LET rule == e.rules[i]
          event == [timestamp |-> t, rule_id |-> rule.id,
                    rule_name |-> rule.name, action |-> rule.action,
                    src_ip |-> f.src_ip, dst_ip |-> f.dst_ip,
                    src_port |-> f.src_port, dst_port |-> f.dst_port,
                    protocol |-> f.protocol, direction |-> f.direction,
                    packet_size |-> len]
          e1 == [e EXCEPT !.rules[i] = record_match(rule, t),
                          !.stats.rules_matched = @ + 1,
                          !.recent_events = ring_push(@, event, e.max_events)]
          out1 == out \o <<event>>
      IN  IF rule.action = "Allow"
          THEN [engine |-> [e1 EXCEPT !.stats.packets_allowed = @ + 1],
                ret |-> "Allow", events |-> out1]
          ELSE IF rule.action = "Block"
          THEN [engine |-> [e1 EXCEPT !.stats.packets_blocked = @ + 1],
                ret |-> "Block", events |-> out1]
          ELSE IF rule.action = "LogAndBlock"
          THEN [engine |-> [e1 EXCEPT !.stats.packets_logged = @ + 1,
                                      !.stats.packets_blocked = @ + 1],
                ret |-> "LogAndBlock", events |-> out1]
          ELSE check_rules([e1 EXCEPT !.stats.packets_logged = @ + 1],
                           log_next_rule(e1, i), f, len, t, out1)

\* A plausible slip: the direction is taken from the destination address.
process_enabled_by_destination(e, packet, t) ==
    LET e0 == [e EXCEPT !.stats.total_packets_processed = @ + 1]
        src == parse_ip(packet.src_ip)
        dst == parse_ip(packet.dst_ip)
    IN  IF ~IsSome(src) THEN [engine |-> e0, ret |-> "Allow", events |-> <<>>]
        ELSE IF ~IsSome(dst)
        THEN [engine |-> e0, ret |-> "Allow", events |-> <<>>]
        ELSE check_rules(e0, 1,
                 [src_ip |-> Unwrap(src), dst_ip |-> Unwrap(dst),
                  src_port |-> UnwrapOr(packet.src_port, 0),
                  dst_port |-> UnwrapOr(packet.dst_port, 0),
                  protocol |-> rule_protocol(packet.protocol),
                  direction |-> IF is_local_ip(Unwrap(dst))
                                THEN "Inbound" ELSE "Outbound"],
                 packet.length, t, <<>>)

\* process_packet once the engine is known to be enabled
process_enabled(e, packet, t) ==
    LET e0 == [e EXCEPT !.stats.total_packets_processed = @ + 1]
        src == parse_ip(packet.src_ip)
        dst == parse_ip(packet.dst_ip)
    IN  IF ~IsSome(src) THEN [engine |-> e0, ret |-> "Allow", events |-> <<>>]
        ELSE IF ~IsSome(dst)
        THEN [engine |-> e0, ret |-> "Allow", events |-> <<>>]
        ELSE check_rules(e0, 1,
                 [src_ip |-> Unwrap(src), dst_ip |-> Unwrap(dst),
                  src_port |-> UnwrapOr(packet.src_port, 0),
                  dst_port |-> UnwrapOr(packet.dst_port, 0),
                  protocol |-> rule_protocol(packet.protocol),
                  direction |-> packet_direction(Unwrap(src))],
                 packet.length, t, <<>>)

\* A plausible slip: the enabled flag is not consulted.
process_packet_ungated(e, packet, t) == process_enabled(e, packet, t)

\* FirewallEngine::process_packet
process_packet(e, packet, t) ==
    IF ~e.enabled THEN [engine |-> e, ret |-> "Allow", events |-> <<>>]
    ELSE process_enabled(e, packet, t)

-----------------------------------------------------------------------------
(* Rates.  The program computes rates in f64; the model computes them as     *)
(* exact fractions in lowest terms, [num |-> n, den |-> d] with d > 0.       *)

RECURSIVE GCD(_, _)
GCD(a, b) == IF b = 0 THEN a ELSE GCD(b, a % b)

Rat(n, d) ==
    LET g == GCD(IF n < 0 THEN -n ELSE n, d)
    IN  [num |-> n \div g, den |-> d \div g]
RatZero == [num |-> 0, den |-> 1]
RatOfInt(n) == [num |-> n, den |-> 1]
RatAdd(a, b) == Rat(a.num * b.den + b.num * a.den, a.den * b.den)
RatSub(a, b) == Rat(a.num * b.den - b.num * a.den, a.den * b.den)
RatMul(a, b) == Rat(a.num * b.num, a.den * b.den)
RatDivInt(a, n) == Rat(a.num, a.den * n)
RatLess(a, b) == a.num * b.den < b.num * a.den
RatExceedsInt(a, n) ==
    \/ a.num \div a.den > n
    \/ (a.num \div a.den = n /\ a.num % a.den # 0)
RatMax(a, b) == IF RatLess(a, b) THEN b ELSE a

\* Iterator::sum over a sequence of rates
RECURSIVE RatSum(_)
RatSum(seq) == IF seq = <<>> THEN RatZero ELSE RatAdd(Head(seq), RatSum(Tail(seq)))

\* The orders in which a HashMap may yield the keys in S.
RECURSIVE Orderings(_)
Orderings(S) ==
    IF S = {} THEN {<<>>}
    ELSE UNION {{<<x>> \o rest : rest \in Orderings(S \ {x})} : x \in S}

-----------------------------------------------------------------------------
(* Rule export and import (firewall/engine.rs, with the Serialize and        *)
(* Deserialize derived in firewall/rules.rs).  A JSON text is modelled by    *)
(* the value it denotes; an IP address string by its octets.                 *)

JNull == [json |-> "null"]
JArray(items) == [json |-> "array", items |-> items]
JObject(fields) == [json |-> "object", fields |-> fields]

\* Serialize for Option<HashSet<T>>: null, or an array in the set's
\* iteration order
serialize_set(o) ==
    IF IsSome(o) THEN {JArray(order) : order \in Orderings(Unwrap(o))}
    ELSE {JNull}

\* Serialize for Option<SystemTime>: null, or the time since the epoch in
\* seconds and nanoseconds
serialize_time(o) ==
    IF IsSome(o)
    THEN JObject([secs_since_epoch |-> Unwrap(o) \div TicksPerSecond,
                  nanos_since_epoch |->
                      (Unwrap(o) % TicksPerSecond) * (1000000000 \div TicksPerSecond)])
    ELSE JNull

\* A plausible slip: the match statistics are skipped (#[serde(skip)]), so
\* that they are exported as their defaults.
serialize_rule_without_statistics(rule) ==
    {JObject([id |-> rule.id, name |-> rule.name, enabled |-> rule.enabled,
              action |-> rule.action, direction |-> rule.direction,
              protocol |-> rule.protocol,
              source_ips |-> sips, destination_ips |-> dips,
              source_ports |-> sports, destination_ports |-> dports,
              priority |-> rule.priority,
              last_matched |-> JNull,
              match_count |-> 0]) :
        sips \in serialize_set(rule.source_ips),
        dips \in serialize_set(rule.destination_ips),
        sports \in serialize_set(rule.source_ports),
        dports \in serialize_set(rule.destination_ports)}

\* #[derive(Serialize)] for FirewallRule: the texts a rule may be written as
serialize_rule(rule) ==
    {JObject([id |-> rule.id, name |-> rule.name, enabled |-> rule.enabled,
              action |-> rule.action, direction |-> rule.direction,
              protocol |-> rule.protocol,
              source_ips |-> sips, destination_ips |-> dips,
              source_ports |-> sports, destination_ports |-> dports,
              priority |-> rule.priority,
              last_matched |-> serialize_time(rule.last_matched),
              match_count |-> rule.match_count]) :
        sips \in serialize_set(rule.source_ips),
        dips \in serialize_set(rule.destination_ips),
        sports \in serialize_set(rule.source_ports),
        dports \in serialize_set(rule.destination_ports)}

\* serde_json::to_string_pretty(&self.rules)
RECURSIVE serialize_rules(_)
serialize_rules(rules) ==
    IF rules = <<>> THEN {<<>>}
    ELSE {<<first>> \o rest : first \in serialize_rule(Head(rules)),
                              rest \in serialize_rules(Tail(rules))}

\* FirewallEngine::export_rules: the texts it may return
export_rules(e) == {JArray(items) : items \in serialize_rules(e.rules)}

\* A field of a JSON object; a missing field of Option type reads as null
field_or_null(object, key) ==
    IF key \in DOMAIN object.fields THEN object.fields[key] ELSE JNull

\* Deserialize for Option<HashSet<T>>
deserialize_set(value) ==
    IF value.json = "null" THEN None
    ELSE Some({value.items[i] : i \in 1..Len(value.items)})

\* Deserialize for Option<SystemTime>
deserialize_time(value) ==
    IF value.json = "null" THEN None
    ELSE Some(value.fields.secs_since_epoch * TicksPerSecond
              + value.fields.nanos_since_epoch \div (1000000000 \div TicksPerSecond))

\* Whether #[derive(Deserialize)] for FirewallRule accepts a JSON value: an
\* object with every field that is not an Option, variants that exist and
\* numbers in range.
is_rule_json(value) ==
    /\ value.json = "object"
    /\ {"id", "name", "enabled", "action", "direction", "protocol", "priority",
        "match_count"} \subseteq DOMAIN value.fields
    /\ value.fields.action \in {"Allow", "Block", "Log", "LogAndBlock"}
    /\ value.fields.direction \in {"Inbound", "Outbound", "Bidirectional"}
    /\ value.fields.protocol \in {"TCP", "UDP", "ICMP", "Any"}
    /\ value.fields.priority \in 0..255
    /\ \A key \in {"source_ips", "destination_ips", "source_ports",
                   "destination_ports"} :
          field_or_null(value, key).json \in {"null", "array"}

deserialize_rule(value) ==
    [id |-> value.fields.id, name |-> value.fields.name,
     enabled |-> value.fields.enabled, action |-> value.fields.action,
     direction |-> value.fields.direction, protocol |-> value.fields.protocol,
     source_ips |-> deserialize_set(field_or_null(value, "source_ips")),
     destination_ips |-> deserialize_set(field_or_null(value, "destination_ips")),
     source_ports |-> deserialize_set(field_or_null(value, "source_ports")),
     destination_ports |-> deserialize_set(field_or_null(value, "destination_ports")),
     priority |-> value.fields.priority,
     last_matched |-> deserialize_time(field_or_null(value, "last_matched")),
     match_count |-> value.fields.match_count]

\* serde_json::from_str::<Vec<FirewallRule>>(json): json is None for a text
\* that is not JSON; the result is None for an error.
from_str(json) ==
    IF ~IsSome(json) THEN None
    ELSE IF Unwrap(json).json # "array" THEN None
    ELSE IF \E i \in 1..Len(Unwrap(json).items) : ~is_rule_json(Unwrap(json).items[i])
    THEN None
    ELSE Some([i \in 1..Len(Unwrap(json).items) |->
                  deserialize_rule(Unwrap(json).items[i])])

\* FirewallEngine::import_rules on a text
import_rules_json(e, json) == import_rules(e, from_str(json))

-----------------------------------------------------------------------------
(* Flow inspector (traffic/inspector.rs).  The description of an event is    *)
(* text derived from its other fields and is left out.                       *)

\* The inspector's configuration: bandwidth_threshold in bytes per second
\* (1_000_000 in new), flow_timeout in seconds (300), max_flows, the cap on
\* the flow history (10000), and max_events, the cap on the event ring
\* (1000), scaled down so that alerts, expiry and overflow happen within the
\* explored runs.
TiBandwidthThreshold == 100
TiFlowTimeoutSecs == 1
TiMaxFlows == 2
TiMaxEvents == 2

\* TrafficInspector::with_config, with the local networks new adds.
\* packet_rate_threshold is never read.
NewTrafficInspector ==
    [active_flows |-> EmptyMap,
     flow_history |-> <<>>,
     traffic_events |-> <<>>,
     bandwidth_threshold |-> TiBandwidthThreshold,
     flow_timeout |-> from_secs(TiFlowTimeoutSecs),
     max_flows |-> TiMaxFlows,
     max_events |-> TiMaxEvents,
     local_networks |-> <<<<<<127, 0, 0, 0>>, 8>>, <<<<10, 0, 0, 0>>, 8>>,
                          <<<<172, 16, 0, 0>>, 12>>, <<<<192, 168, 0, 0>>, 16>>>>]

\* IpNetwork::contains for an IPv4 network <<address, prefix>>: the first
\* prefix bits of the address agree, octet by octet.
network_contains(network, ip) ==
    \A i \in 1..4 :
        LET bits == Max(0, Min(8, network[2] - 8 * (i - 1)))
        IN  ip[i] \div (2 ^ (8 - bits)) = network[1][i] \div (2 ^ (8 - bits))

\* A plausible slip: only the first octet is compared.
is_local_address_first_octet(ti, ip) ==
    \E i \in 1..Len(ti.local_networks) : ti.local_networks[i][1][1] = ip[1]

\* TrafficInspector::is_local_address
is_local_address(ti, ip) ==
    \E i \in 1..Len(ti.local_networks) :
        network_contains(ti.local_networks[i], ip)

\* TrafficInspector::add_local_network; parsed is what network.parse()
\* gave, None when the text is not a network.
add_local_network(ti, parsed) ==
    IF IsSome(parsed)
    THEN [inspector |-> [ti EXCEPT !.local_networks = Append(@, Unwrap(parsed))],
          ret |-> "Ok"]
    ELSE [inspector |-> ti, ret |-> "Err"]

\* TrafficInspector::determine_flow_direction
determine_flow_direction(ti, src, dst) ==
    LET src_is_local == is_local_address(ti, src.ip)
        dst_is_local == is_local_address(ti, dst.ip)
    IN  CASE src_is_local /\ dst_is_local -> "Internal"
          [] src_is_local /\ ~dst_is_local -> "Outbound"
          [] ~src_is_local /\ dst_is_local -> "Inbound"
          [] OTHER -> "Unknown"

TrafficEvent(t, event_type, flow_id, severity) ==
    [timestamp |-> t, event_type |-> event_type, flow_id |-> flow_id,
     severity |-> severity]

\* TrafficInspector::add_event
add_event(ti, event) ==
    [ti EXCEPT !.traffic_events = ring_push(@, event, ti.max_events)]

\* The body of cleanup_expired_flows' loop, for the expired flows in the
\* order the map yielded them.  A result carries the inspector, the events
\* pushed and the flows moved to the history, in order.
RECURSIVE expire_flows(_, _, _)
expire_flows(r, order, t) ==
    IF order = <<>> THEN r
    ELSE
      LET flow_id == Head(order)
          flow == [r.inspector.active_flows[flow_id] EXCEPT !.is_active = FALSE]
          event == TrafficEvent(t, "FlowEnded", flow_id, "Info")
          ti1 == [r.inspector EXCEPT !.active_flows = MapRemove(@, {flow_id})]
          ti2 == add_event(ti1, event)
          ti3 == [ti2 EXCEPT !.flow_history = ring_push(@, flow, ti2.max_flows)]
      IN  expire_flows([inspector |-> ti3,
                        events |-> Append(r.events, event),
                        ended |-> Append(r.ended, flow)],
                       Tail(order), t)
\* A plausible slip: ">=" expires a flow that has been idle for exactly the
\* timeout.
expired_flows_at_timeout(ti, t) ==
    {id \in DOMAIN ti.active_flows :
        (IF t >= ti.active_flows[id].last_seen
         THEN t - ti.active_flows[id].last_seen ELSE 0) >= ti.flow_timeout}

\* The flows cleanup_expired_flows finds expired: idle for longer than the
\* timeout (an age that cannot be determined counts as zero).
expired_flows(ti, t) ==
    {id \in DOMAIN ti.active_flows :
        (IF t >= ti.active_flows[id].last_seen
         THEN t - ti.active_flows[id].last_seen ELSE 0) > ti.flow_timeout}

\* TrafficInspector::cleanup_expired_flows: the results it may leave.
cleanup_expired_flows(r, t) ==
    {expire_flows(r, order, t) : order \in Orderings(expired_flows(r.inspector, t))}

\* A plausible slip: the lookup is skipped, so every packet creates its flow.
contains_key_never(m, k) == FALSE

\* HashMap::contains_key, as inspect_packet asks it of active_flows
contains_key(m, k) == k \in DOMAIN m
\* A plausible slip: the flow's endpoints and direction follow the latest
\* packet.
inspect_parsed_latest_endpoints(ti, packet, protocol, src_addr, dst_addr, t) ==
    LET flow_id == generate_flow_id(src_addr, dst_addr)
        direction == determine_flow_direction(ti, src_addr, dst_addr)
        flow_exists == contains_key(ti.active_flows, flow_id)
        new_flow == [flow_id |-> flow_id, src_addr |-> src_addr,
                     dst_addr |-> dst_addr, protocol |-> protocol,
                     direction |-> direction, start_time |-> t, last_seen |-> t,
                     packet_count |-> 0, byte_count |-> 0,
                     packets_per_second |-> RatZero,
                     bytes_per_second |-> RatZero, is_active |-> TRUE]
        started == TrafficEvent(t, "FlowStarted", flow_id, "Info")
        ti1 == IF flow_exists THEN ti
               ELSE add_event([ti EXCEPT !.active_flows = MapPut(@, flow_id, new_flow)],
                              started)
        flow == ti1.active_flows[flow_id]
        counted == [flow EXCEPT !.packet_count = @ + 1,
                                !.byte_count = @ + packet.length,
                                !.last_seen = t,
                                !.protocol = protocol,
                                !.src_addr = src_addr,
                                !.dst_addr = dst_addr,
                                !.direction = direction]
        elapsed == t - counted.start_time
        rated == IF elapsed > 0
                 THEN [counted EXCEPT
                         !.packets_per_second =
                             Rat(counted.packet_count * TicksPerSecond, elapsed),
                         !.bytes_per_second =
                             Rat(counted.byte_count * TicksPerSecond, elapsed)]
                 ELSE counted
        should_alert == elapsed > 0
                        /\ RatLess(RatOfInt(ti.bandwidth_threshold),
                                   rated.bytes_per_second)
        alert == TrafficEvent(t, "HighBandwidth", flow_id, "Warning")
        ti2 == [ti1 EXCEPT !.active_flows = MapPut(@, flow_id, rated)]
    IN  [inspector |-> IF should_alert THEN add_event(ti2, alert) ELSE ti2,
         events |-> (IF flow_exists THEN <<>> ELSE <<started>>)
                    \o (IF should_alert THEN <<alert>> ELSE <<>>),
         ended |-> <<>>]

\* The part of inspect_packet that runs when both addresses parse.
inspect_parsed(ti, packet, protocol, src_addr, dst_addr, t) ==
    LET flow_id == generate_flow_id(src_addr, dst_addr)
        direction == determine_flow_direction(ti, src_addr, dst_addr)
        flow_exists == contains_key(ti.active_flows, flow_id)
        new_flow == [flow_id |-> flow_id, src_addr |-> src_addr,
                     dst_addr |-> dst_addr, protocol |-> protocol,
                     direction |-> direction, start_time |-> t, last_seen |-> t,
                     packet_count |-> 0, byte_count |-> 0,
                     packets_per_second |-> RatZero,
                     bytes_per_second |-> RatZero, is_active |-> TRUE]
        started == TrafficEvent(t, "FlowStarted", flow_id, "Info")
        ti1 == IF flow_exists THEN ti
               ELSE add_event([ti EXCEPT !.active_flows = MapPut(@, flow_id, new_flow)],
                              started)
        flow == ti1.active_flows[flow_id]
        counted == [flow EXCEPT !.packet_count = @ + 1,
                                !.byte_count = @ + packet.length,
                                !.last_seen = t,
                                !.protocol = protocol]
        elapsed == t - counted.start_time
        rated == IF elapsed > 0
                 THEN [counted EXCEPT
                         !.packets_per_second =
                             Rat(counted.packet_count * TicksPerSecond, elapsed),
                         !.bytes_per_second =
                             Rat(counted.byte_count * TicksPerSecond, elapsed)]
                 ELSE counted
        should_alert == elapsed > 0
                        /\ RatLess(RatOfInt(ti.bandwidth_threshold),
                                   rated.bytes_per_second)
        alert == TrafficEvent(t, "HighBandwidth", flow_id, "Warning")
        ti2 == [ti1 EXCEPT !.active_flows = MapPut(@, flow_id, rated)]
    IN  [inspector |-> IF should_alert THEN add_event(ti2, alert) ELSE ti2,
         events |-> (IF flow_exists THEN <<>> ELSE <<started>>)
                    \o (IF should_alert THEN <<alert>> ELSE <<>>),
         ended |-> <<>>]

\* TrafficInspector::inspect_packet: the results it may leave.
inspect_packet(ti, packet, protocol, t) ==
    LET src == IF IsSome(packet.src_ip) /\ IsSome(packet.src_port)
               THEN parse_socket_addr(Unwrap(packet.src_ip), Unwrap(packet.src_port))
               ELSE None
        dst == IF IsSome(packet.dst_ip) /\ IsSome(packet.dst_port)
               THEN parse_socket_addr(Unwrap(packet.dst_ip), Unwrap(packet.dst_port))
               ELSE None
        r == IF IsSome(src) /\ IsSome(dst)
             THEN inspect_parsed(ti, packet, protocol, Unwrap(src), Unwrap(dst), t)
             ELSE [inspector |-> ti, events |-> <<>>, ended |-> <<>>]
    IN  cleanup_expired_flows(r, t)

\* TrafficInspector::get_active_flows
get_active_flows(ti) == ti.active_flows

-----------------------------------------------------------------------------
(* Traffic analyzer (traffic/analyzer.rs).  pattern_id and description are   *)
(* text derived from a pattern's type and time and are left out, and so are  *)
(* the geographic analysis, which is always empty, and analysis_window,     *)
(* which is never read.  related_flows is kept as a set: its order is the    *)
(* map's.                                                                    *)

\* The caps on the bandwidth samples (max_samples, 3600 in new) and on the
\* detected patterns (max_patterns, 100), and the thresholds of the DDoS
\* detector (ddos_threshold, 100 flows of one source) and of the port scan
\* detector (20 destination ports of one source), scaled down so that
\* overflow and detection happen within the explored runs.
TaMaxSamples == 1
TaMaxPatterns == 1
TaDdosThreshold == 3
TaPortScanPorts == 2

\* Constants of the analyzer
SampleIntervalSecs == 1      \* sample_interval
RecentSamples == 300         \* analyze_bandwidth: take(300)
BurstWindow == 10            \* detect_burst_pattern: the last 10 samples
BurstThreshold == 10         \* burst_threshold: 10.0
AnomalyWindow == 60          \* detect_anomaly_pattern: the last 60 samples
AnomalyThreshold == 5        \* anomaly_threshold: 5.0
InterfaceCapacity == 1000000000

\* TrafficAnalyzer::new (with_config for the sample cap)
NewTrafficAnalyzer(t) ==
    [bandwidth_samples |-> <<>>,
     detected_patterns |-> <<>>,
     protocol_cache |-> EmptyMap,
     sample_interval |-> from_secs(SampleIntervalSecs),
     max_samples |-> TaMaxSamples,
     max_patterns |-> TaMaxPatterns,
     last_analysis |-> t,
     burst_threshold |-> BurstThreshold,
     anomaly_threshold |-> AnomalyThreshold,
     ddos_threshold |-> TaDdosThreshold]
\* TrafficAnalyzer::with_config.  The analysis window it also sets is read by
\* no analysis.
with_config(sample_interval_secs, max_samples, burst_threshold, t) ==
    [NewTrafficAnalyzer(t) EXCEPT !.sample_interval = from_secs(sample_interval_secs),
                                  !.max_samples = max_samples,
                                  !.burst_threshold = burst_threshold]

\* The sum of a rate over the flows whose ids are in ids.
RECURSIVE SumRate(_, _, _)
SumRate(flows, ids, field) ==
    IF ids = {} THEN RatZero
    ELSE LET id == CHOOSE x \in ids : TRUE
         IN  RatAdd(flows[id][field], SumRate(flows, ids \ {id}, field))

\* The sum of a counter over the flows whose ids are in ids.
RECURSIVE SumCount(_, _, _)
SumCount(flows, ids, field) ==
    IF ids = {} THEN 0
    ELSE LET id == CHOOSE x \in ids : TRUE
         IN  flows[id][field] + SumCount(flows, ids \ {id}, field)

\* TrafficAnalyzer::collect_bandwidth_sample
collect_bandwidth_sample(flows, t) ==
    LET of(direction) ==
            SumRate(flows, {id \in DOMAIN flows : flows[id].direction = direction},
                    "bytes_per_second")
        inbound_bps == of("Inbound")
        outbound_bps == of("Outbound")
        internal_bps == of("Internal")
    IN  [timestamp |-> t,
         total_bps |-> RatAdd(RatAdd(inbound_bps, outbound_bps), internal_bps),
         inbound_bps |-> inbound_bps,
         outbound_bps |-> outbound_bps,
         internal_bps |-> internal_bps]

\* f64::max folded from 0.0 over the total_bps of a sequence of samples
RECURSIVE PeakOf(_)
PeakOf(samples) ==
    IF samples = <<>> THEN RatZero
    ELSE RatMax(Head(samples).total_bps, PeakOf(Tail(samples)))

TotalsOf(samples) == [i \in 1..Len(samples) |-> samples[i].total_bps]

\* The BandwidthAnalysis of get_cached_analysis and of analyze_bandwidth
\* without samples.
EmptyBandwidthAnalysis ==
    [total_bandwidth |-> RatZero, inbound_bandwidth |-> RatZero,
     outbound_bandwidth |-> RatZero, internal_bandwidth |-> RatZero,
     peak_bandwidth |-> RatZero, average_bandwidth |-> RatZero,
     bandwidth_utilization |-> RatZero, bandwidth_history |-> <<>>]

\* (total_bandwidth / interface_capacity * 100.0).min(100.0)
utilization_of(total_bandwidth) ==
    IF RatExceedsInt(total_bandwidth, InterfaceCapacity) THEN RatOfInt(100)
    ELSE RatDivInt(total_bandwidth, InterfaceCapacity \div 100)

\* TrafficAnalyzer::analyze_bandwidth
analyze_bandwidth(ta) ==
    IF ta.bandwidth_samples = <<>> THEN EmptyBandwidthAnalysis
    ELSE
      LET latest == ta.bandwidth_samples[Len(ta.bandwidth_samples)]
          recent_samples == LastN(ta.bandwidth_samples, RecentSamples)
      IN  [total_bandwidth |-> latest.total_bps,
           inbound_bandwidth |-> latest.inbound_bps,
           outbound_bandwidth |-> latest.outbound_bps,
           internal_bandwidth |-> latest.internal_bps,
           peak_bandwidth |-> PeakOf(recent_samples),
           average_bandwidth |->
               RatDivInt(RatSum(TotalsOf(recent_samples)), Len(recent_samples)),
           bandwidth_utilization |-> utilization_of(latest.total_bps),
           bandwidth_history |-> ta.bandwidth_samples]

\* The statistics analyze_protocols collects, per protocol of the flows.
collect_protocol_stats(flows) ==
    LET protocols == {flows[id].protocol : id \in DOMAIN flows}
        total_bandwidth == SumRate(flows, DOMAIN flows, "bytes_per_second")
        of(protocol) == {id \in DOMAIN flows : flows[id].protocol = protocol}
        bandwidth(protocol) == SumRate(flows, of(protocol), "bytes_per_second")
    IN  [protocol \in protocols |->
            [flow_count |-> Cardinality(of(protocol)),
             total_bytes |-> SumCount(flows, of(protocol), "byte_count"),
             total_packets |-> SumCount(flows, of(protocol), "packet_count"),
             bandwidth_bps |-> bandwidth(protocol),
             packet_rate_pps |-> SumRate(flows, of(protocol), "packets_per_second"),
             percentage_of_total |->
                 IF RatLess(RatZero, total_bandwidth)
                 THEN Rat(bandwidth(protocol).num * total_bandwidth.den * 100,
                          bandwidth(protocol).den * total_bandwidth.num)
                 ELSE RatZero]]

\* The orders sort_by may leave top_protocols in: by percentage, highest
\* first, protocols of equal percentage in the order the map yielded them.
top_protocols_orders(protocol_stats) ==
    {[i \in 1..Len(order) |->
         <<order[i], protocol_stats[order[i]].percentage_of_total>>] :
       order \in {o \in Orderings(DOMAIN protocol_stats) :
                    \A i, j \in 1..Len(o) :
                       i < j => ~RatLess(protocol_stats[o[i]].percentage_of_total,
                                         protocol_stats[o[j]].percentage_of_total)}}

\* TrafficAnalyzer::analyze_protocols: the breakdowns it may return (it
\* also caches protocol_stats, which analyze_traffic below stores).
analyze_protocols(flows) ==
    LET protocol_stats == collect_protocol_stats(flows)
    IN  {[protocol_stats |-> protocol_stats,
          top_protocols |-> top,
          total_flows |-> Cardinality(DOMAIN flows),
          total_bandwidth |-> SumRate(flows, DOMAIN flows, "bytes_per_second")] :
            top \in top_protocols_orders(protocol_stats)}

\* TrafficPattern.  description holds the values its text is formatted
\* from; pattern_id, a prefix and detected_at in whole seconds, is left out.
TrafficPattern(pattern_type, description, confidence, t, related_flows) ==
    [pattern_type |-> pattern_type, description |-> description,
     confidence |-> confidence, detected_at |-> t,
     related_flows |-> related_flows]
\* A plausible slip: the mean is taken over the samples before the current
\* one.
detect_burst_pattern_previous_mean(ta, t) ==
    IF Len(ta.bandwidth_samples) < BurstWindow THEN None
    ELSE
      LET recent_samples == LastN(ta.bandwidth_samples, BurstWindow)
          current_bps == recent_samples[Len(recent_samples)].total_bps
          previous == SubSeq(recent_samples, 1, Len(recent_samples) - 1)
          avg_bps == RatDivInt(RatSum(TotalsOf(previous)), Len(previous))
      IN  IF RatLess(RatMul(avg_bps, RatOfInt(ta.burst_threshold)), current_bps)
          THEN Some(TrafficPattern("BurstTraffic", <<current_bps, avg_bps>>,
                                  Rat(8, 10), t, {}))
          ELSE None

\* TrafficAnalyzer::detect_burst_pattern
detect_burst_pattern(ta, t) ==
    IF Len(ta.bandwidth_samples) < BurstWindow THEN None
    ELSE
      LET recent_samples == LastN(ta.bandwidth_samples, BurstWindow)
          current_bps == recent_samples[Len(recent_samples)].total_bps
          avg_bps == RatDivInt(RatSum(TotalsOf(recent_samples)), Len(recent_samples))
      IN  IF RatLess(RatMul(avg_bps, RatOfInt(ta.burst_threshold)), current_bps)
          THEN Some(TrafficPattern("BurstTraffic", <<current_bps, avg_bps>>,
                                  Rat(8, 10), t, {}))
          ELSE None

FlowsOfSource(flows, source_ip) ==
    {id \in DOMAIN flows : flows[id].src_addr.ip = source_ip}

\* TrafficAnalyzer::detect_ddos_pattern: what it may return, the sources
\* being visited in the map's order.
detect_ddos_pattern(ta, flows, t) ==
    LET sources == {flows[id].src_addr.ip : id \in DOMAIN flows}
        excessive == {ip \in sources :
                        Cardinality(FlowsOfSource(flows, ip)) > ta.ddos_threshold}
    IN  IF excessive = {} THEN {None}
        ELSE {Some(TrafficPattern("DDoSPattern",
                                  <<ip, Cardinality(FlowsOfSource(flows, ip))>>,
                                  Rat(9, 10), t,
                                  FlowsOfSource(flows, ip))) : ip \in excessive}
\* A plausible slip: the flows of a source are counted instead of its
\* distinct destination ports.
detect_port_scan_by_flows(flows, t) ==
    LET sources == {flows[id].src_addr.ip : id \in DOMAIN flows}
        scanning == {ip \in sources :
                       Cardinality(FlowsOfSource(flows, ip)) > TaPortScanPorts}
    IN  IF scanning = {} THEN {None}
        ELSE {Some(TrafficPattern("PortScan",
                                  <<ip, Cardinality(FlowsOfSource(flows, ip))>>,
                                  Rat(85, 100), t,
                                  FlowsOfSource(flows, ip))) : ip \in scanning}

\* TrafficAnalyzer::detect_port_scan_pattern: what it may return.
detect_port_scan_pattern(flows, t) ==
    LET sources == {flows[id].src_addr.ip : id \in DOMAIN flows}
        ports(ip) == {flows[id].dst_addr.port : id \in FlowsOfSource(flows, ip)}
        scanning == {ip \in sources : Cardinality(ports(ip)) > TaPortScanPorts}
    IN  IF scanning = {} THEN {None}
        ELSE {Some(TrafficPattern("PortScan", <<ip, Cardinality(ports(ip))>>,
                                  Rat(85, 100), t,
                                  FlowsOfSource(flows, ip))) : ip \in scanning}

\* The sum of the squared distances of a sequence of rates from mean.
RECURSIVE SquaredDeviations(_, _)
SquaredDeviations(values, mean) ==
    IF values = <<>> THEN RatZero
    ELSE LET d == RatSub(Head(values), mean)
         IN  RatAdd(RatMul(d, d), SquaredDeviations(Tail(values), mean))

\* TrafficAnalyzer::detect_anomaly_pattern.  |current - mean| > std_dev *
\* threshold is decided on the squares.
detect_anomaly_pattern(ta, t) ==
    IF Len(ta.bandwidth_samples) < AnomalyWindow THEN None
    ELSE
      LET values == TotalsOf(LastN(ta.bandwidth_samples, AnomalyWindow))
          mean == RatDivInt(RatSum(values), Len(values))
          variance == RatDivInt(SquaredDeviations(values, mean), Len(values))
          d == RatSub(values[Len(values)], mean)
      IN  IF RatLess(RatMul(variance,
                            RatOfInt(ta.anomaly_threshold * ta.anomaly_threshold)),
                     RatMul(d, d))
          THEN Some(TrafficPattern("AnomalousActivity", <<values[Len(values)], mean>>,
                                  Rat(7, 10), t, {}))
          ELSE None

\* TrafficAnalyzer::detect_patterns: the lists it may return.
detect_patterns(ta, flows, t) ==
    {detect_burst_pattern(ta, t) \o ddos \o scan \o detect_anomaly_pattern(ta, t) :
        ddos \in detect_ddos_pattern(ta, flows, t),
        scan \in detect_port_scan_pattern(flows, t)}

\* TrafficAnalyzer::get_cached_analysis
get_cached_analysis(ta, t) ==
    [bandwidth_analysis |-> EmptyBandwidthAnalysis,
     protocol_breakdown |->
        [protocol_stats |-> ta.protocol_cache,
         top_protocols |-> <<>>,
         total_flows |-> 0,
         total_bandwidth |-> RatZero],
     patterns |-> ta.detected_patterns,
     analysis_timestamp |-> t]

\* while self.bandwidth_samples.len() > self.max_samples { pop_front() }
trim_samples(samples, max_samples) == LastN(samples, max_samples)

\* The "Update pattern cache" loop of analyze_traffic.
RECURSIVE push_patterns(_, _, _)
push_patterns(ring, patterns, cap) ==
    IF patterns = <<>> THEN ring
    ELSE push_patterns(ring_push(ring, Head(patterns), cap), Tail(patterns), cap)

\* The part of analyze_traffic that runs once the sample interval has
\* elapsed: the results it may leave, each with the analyzer, the result
\* returned, and the sample and the patterns pushed.
analyze_fresh(ta, flows, t) ==
    LET bandwidth_sample == collect_bandwidth_sample(flows, t)
        ta1 == [ta EXCEPT !.last_analysis = t,
                          !.bandwidth_samples =
                              trim_samples(@ \o <<bandwidth_sample>>, ta.max_samples)]
        bandwidth_analysis == analyze_bandwidth(ta1)
    IN  {LET ta2 == [ta1 EXCEPT !.protocol_cache = breakdown.protocol_stats,
                                !.detected_patterns =
                                    push_patterns(@, detected, ta1.max_patterns)]
         IN  [analyzer |-> ta2,
              ret |-> [bandwidth_analysis |-> bandwidth_analysis,
                       protocol_breakdown |-> breakdown,
                       patterns |-> ta2.detected_patterns,
                       analysis_timestamp |-> t],
              cached |-> FALSE,
              samples |-> <<bandwidth_sample>>,
              patterns |-> detected] :
           breakdown \in analyze_protocols(flows),
           detected \in detect_patterns(ta1, flows, t)}

\* TrafficAnalyzer::analyze_traffic: the results it may leave.
analyze_traffic(ta, flows, t) ==
    IF t - ta.last_analysis < ta.sample_interval
    THEN {[analyzer |-> ta, ret |-> get_cached_analysis(ta, t), cached |-> TRUE,
           samples |-> <<>>, patterns |-> <<>>]}
    ELSE analyze_fresh(ta, flows, t)

-----------------------------------------------------------------------------
(* Statistics collector (analysis/statistics.rs) *)

HistoryWindowSecs == 60      \* history_window
RateWindowSecs == 10         \* calculate_rates: the last 10 seconds
\* A plausible slip: the difference of the two counters taken as a signed
\* number, without saturation.
signed_sub(a, b) == a - b

\* u64::saturating_sub
saturating_sub(a, b) == IF a >= b THEN a - b ELSE 0

InterfaceStats(interface, rx_bytes, tx_bytes, rx_packets, tx_packets) ==
    [interface |-> interface, rx_bytes |-> rx_bytes, tx_bytes |-> tx_bytes,
     rx_packets |-> rx_packets, tx_packets |-> tx_packets,
     rx_errors |-> 0, tx_errors |-> 0, rx_dropped |-> 0, tx_dropped |-> 0]

\* StatisticsCollector::new
NewStatisticsCollector(t) ==
    [start_time |-> t, last_update |-> t, previous_stats |-> EmptyMap,
     total_packets |-> 0, total_bytes |-> 0,
     packet_history |-> <<>>, byte_history |-> <<>>,
     history_window |-> from_secs(HistoryWindowSecs)]

\* The InterfaceMetrics update_interface_stats builds for one interface.
interface_metrics_of(sc, interface_name, current_stats, t) ==
    LET has_rates == interface_name \in DOMAIN sc.previous_stats
                     /\ t - sc.last_update > 0
        previous_stats == sc.previous_stats[interface_name]
        rate(current, previous) ==
            IF has_rates
            THEN Rat(saturating_sub(current, previous) * TicksPerSecond,
                     t - sc.last_update)
            ELSE RatZero
    IN  [interface_name |-> interface_name,
         rx_bytes |-> current_stats.rx_bytes, tx_bytes |-> current_stats.tx_bytes,
         rx_packets |-> current_stats.rx_packets,
         tx_packets |-> current_stats.tx_packets,
         rx_errors |-> current_stats.rx_errors, tx_errors |-> current_stats.tx_errors,
         rx_dropped |-> current_stats.rx_dropped,
         tx_dropped |-> current_stats.tx_dropped,
         rx_rate_bps |-> rate(current_stats.rx_bytes,
                              IF has_rates THEN previous_stats.rx_bytes ELSE 0),
         tx_rate_bps |-> rate(current_stats.tx_bytes,
                              IF has_rates THEN previous_stats.tx_bytes ELSE 0),
         last_update |-> t]
\* A plausible slip: the baselines of the interfaces missing from the call
\* are kept.
update_interface_stats_keeping_baselines(sc, interface_stats, t) ==
    [collector |->
        [sc EXCEPT !.previous_stats =
                       [name \in DOMAIN sc.previous_stats \cup DOMAIN interface_stats |->
                           IF name \in DOMAIN interface_stats
                           THEN interface_stats[name]
                           ELSE sc.previous_stats[name]],
                   !.last_update = t],
     ret |-> [name \in DOMAIN interface_stats |->
                 interface_metrics_of(sc, name, interface_stats[name], t)]]

\* StatisticsCollector::update_interface_stats
update_interface_stats(sc, interface_stats, t) ==
    [collector |-> [sc EXCEPT !.previous_stats = interface_stats,
                              !.last_update = t],
     ret |-> [name \in DOMAIN interface_stats |->
                 interface_metrics_of(sc, name, interface_stats[name], t)]]

\* StatisticsCollector::cleanup_history, for one of the two histories
cleanup_history(history, t, history_window) ==
    LET recent(entry) == entry[1] > t - history_window
    IN  SelectSeq(history, recent)

\* StatisticsCollector::update_packet_stats
update_packet_stats(sc, packets, bytes, t) ==
    [sc EXCEPT !.total_packets = packets,
               !.total_bytes = bytes,
               !.packet_history =
                   cleanup_history(Append(@, <<t, packets>>), t, sc.history_window),
               !.byte_history =
                   cleanup_history(Append(@, <<t, bytes>>), t, sc.history_window)]

\* The count calculate_rates takes as the start of its window: that of the
\* first history entry not older than the window, 0 when there is none.
window_start_count(history, t) ==
    LET in_window(entry) == entry[1] >= t - from_secs(RateWindowSecs)
        found == SelectSeq(history, in_window)
    IN  IF found = <<>> THEN 0 ELSE found[1][2]

\* StatisticsCollector::calculate_rates
calculate_rates(sc, t) ==
    <<Rat(saturating_sub(sc.total_packets,
                         window_start_count(sc.packet_history, t)), RateWindowSecs),
      Rat(saturating_sub(sc.total_bytes,
                         window_start_count(sc.byte_history, t)), RateWindowSecs)>>

\* StatisticsCollector::generate_network_statistics.  top_protocols, a
\* sorted copy of protocol_distribution, is left out.
generate_network_statistics(sc, protocol_stats, interface_metrics, active_connections, t) ==
    [total_packets |-> sc.total_packets,
     total_bytes |-> sc.total_bytes,
     packets_per_second |-> calculate_rates(sc, t)[1],
     bytes_per_second |-> calculate_rates(sc, t)[2],
     active_connections |-> active_connections,
     protocol_distribution |-> protocol_stats,
     interface_metrics |-> interface_metrics,
     uptime |-> IF t >= sc.start_time THEN t - sc.start_time ELSE 0,
     start_time |-> sc.start_time]

-----------------------------------------------------------------------------
(* The driver (ui/app.rs).  The App's tracker, inspector and analyzer are    *)
(* the components above; the record below holds its other fields.  The       *)
(* views (protocol_view, firewall_view), selected_tab and should_quit are    *)
(* display state recomputed from the components and are left out.            *)
(*                                                                           *)
(* The tick threads a "world" through the calls of update_data: the          *)
(* components, the App's fields, and what the calls pushed on the rings.     *)

\* The number of packets update_data pulls at most (for _ in 0..10) and the
\* number of recent packets it keeps (100), scaled down.
AppPullLimit == 2
AppMaxRecentPackets == 2

\* PcapEngine::new, as initialize_capture attaches it
NewPcapEngine == [stats |-> [packets_captured |-> 0, bytes_captured |-> 0]]

\* The fields App::with_advanced_features gives the App
with_advanced_features(t) ==
    [packets_captured |-> 0,
     bytes_captured |-> 0,
     current_connections |-> <<>>,
     recent_packets |-> <<>>,
     interface_stats |-> None,
     last_update |-> t,
     capture_engine |-> None,
     interface |-> "any",
     statistics_collector |-> NewStatisticsCollector(t),
     network_statistics |-> None,
     interface_metrics |-> EmptyMap]

\* App::initialize_capture(None): PcapEngine::new either opens the device,
\* and start_capture then succeeds because the capture is present, or fails
\* and the App goes on without an engine.  Both arms return Ok(()).
initialize_capture(a, capture_opened) ==
    IF capture_opened
    THEN [app |-> [a EXCEPT !.interface = "any",
                            !.capture_engine = Some(NewPcapEngine)],
          ret |-> "Ok"]
    ELSE [app |-> [a EXCEPT !.interface = "eth0"], ret |-> "Ok"]

\* App::with_advanced_features followed by initialize_capture(None), as
\* main calls them.
NewApp(capture_opened, t) ==
    initialize_capture(with_advanced_features(t), capture_opened).app

\* The firewall_engine field of App::with_advanced_features
NewAppFirewall(firewall_enabled, t) ==
    IF firewall_enabled THEN Some(load_default_rules(NewFirewallEngine(t)))
    ELSE None

World(fw, ct, ti, ta, a) ==
    [firewall_engine |-> fw, connection_tracker |-> ct, traffic_inspector |-> ti,
     traffic_analyzer |-> ta, app |-> a,
     pulled |-> <<>>, fw_events |-> <<>>, events |-> <<>>, ended |-> <<>>,
     samples |-> <<>>, patterns |-> <<>>]

\* What get_next_packet may return
PacketResult(packet) == [kind |-> "packet", packet |-> packet]
NoPacket == [kind |-> "none"]
CaptureError == [kind |-> "err"]

\* PcapEngine::get_next_packet: the engine's counters when a packet is read
count_packet(engine, packet) ==
    [engine EXCEPT !.stats.packets_captured = @ + 1,
                   !.stats.bytes_captured = @ + packet.length]

\* The Ok(Some(packet)) arm of update_data's pull loop: the worlds it may
\* leave.
live_packet(w, packet, t) ==
    {[w EXCEPT
        !.app.packets_captured = @ + 1,
        !.app.bytes_captured = @ + packet.length,
        !.app.capture_engine = Some(count_packet(Unwrap(@), packet)),
        !.connection_tracker = track_packet(@, packet, t),
        !.traffic_inspector = r.inspector,
        !.app.recent_packets = ring_push(@, packet, AppMaxRecentPackets),
        !.pulled = Append(@, packet),
        !.events = @ \o r.events,
        !.ended = @ \o r.ended] :
       r \in inspect_packet(w.traffic_inspector, packet,
                             identify_protocol(packet), t)}

\* update_data's pull loop, with n iterations left: results holds what the
\* next calls of get_next_packet return, and nothing more is available
\* after them.
RECURSIVE pull_packets(_, _, _, _)
pull_packets(w, results, n, t) ==
    IF n = 0 \/ results = <<>> \/ Head(results).kind # "packet" THEN {w}
    ELSE UNION {pull_packets(w1, Tail(results), n - 1, t) :
                   w1 \in live_packet(w, Head(results).packet, t)}

\* The capture part of update_data
update_capture(w, results, t) ==
    IF ~IsSome(w.app.capture_engine) THEN {w}
    ELSE {[w1 EXCEPT
             !.app.packets_captured =
                 Unwrap(w1.app.capture_engine).stats.packets_captured,
             !.app.bytes_captured =
                 Unwrap(w1.app.capture_engine).stats.bytes_captured] :
            w1 \in pull_packets(w, results, AppPullLimit, t)}

\* Process packet through firewall if enabled
firewall_process(w, packet, t) ==
    IF IsSome(w.firewall_engine)
    THEN LET r == process_packet(Unwrap(w.firewall_engine), packet, t)
         IN  [w EXCEPT !.firewall_engine = Some(r.engine),
                       !.fw_events = @ \o r.events]
    ELSE w
\* The loop body without the firewall's evaluation
feed_connection_unfiltered(w, conn, t) ==
    {[w EXCEPT !.traffic_inspector = r.inspector,
               !.events = @ \o r.events,
               !.ended = @ \o r.ended] :
       r \in inspect_packet(w.traffic_inspector, dummy_packet(conn),
                            identify_protocol(dummy_packet(conn)), t)}

\* The body of update_data's loop over the proc connections: the synthetic
\* packet is inspected, then evaluated by the firewall.
feed_connection(w, conn, t) ==
    {firewall_process([w EXCEPT !.traffic_inspector = r.inspector,
                                !.events = @ \o r.events,
                                !.ended = @ \o r.ended],
                      dummy_packet(conn), t) :
       r \in inspect_packet(w.traffic_inspector, dummy_packet(conn),
                            identify_protocol(dummy_packet(conn)), t)}

RECURSIVE feed_connections(_, _, _)
feed_connections(w, connections, t) ==
    IF connections = <<>> THEN {w}
    ELSE UNION {feed_connections(w1, Tail(connections), t) :
                   w1 \in feed_connection(w, Head(connections), t)}

\* The proc part of update_data; proc_read is what get_tcp_connections
\* returned, None for an error.
update_connections(w, proc_read, t) ==
    IF ~IsSome(proc_read) THEN {w}
    ELSE UNION {feed_connections(
                    [w EXCEPT !.app.current_connections = Unwrap(proc_read),
                              !.connection_tracker = r.tracker],
                    Unwrap(proc_read), t) :
                  r \in update_from_proc(w.connection_tracker, Unwrap(proc_read), t)}

\* The statistics part of update_data; stats_read is what
\* get_interface_stats returned, None for an error.
update_statistics(w, stats_read, t) ==
    LET interface_stats_map ==
            IF IsSome(stats_read)
            THEN MapPut(EmptyMap, w.app.interface, Unwrap(stats_read))
            ELSE EmptyMap
        r == update_interface_stats(w.app.statistics_collector,
                                    interface_stats_map, t)
        sc == update_packet_stats(r.collector, w.app.packets_captured,
                                  w.app.bytes_captured, t)
    IN  [w EXCEPT
           !.app.interface_stats = IF IsSome(stats_read) THEN stats_read ELSE @,
           !.app.interface_metrics = r.ret,
           !.app.statistics_collector = sc,
           !.app.network_statistics =
               Some(generate_network_statistics(
                        sc, w.connection_tracker.protocol_analyzer.protocol_stats,
                        r.ret, get_connection_count(w.connection_tracker), t))]

\* The analysis part of update_data; the result is discarded.
update_analysis(w, t) ==
    {[w EXCEPT !.traffic_analyzer = r.analyzer,
               !.samples = @ \o r.samples,
               !.patterns = @ \o r.patterns] :
       r \in analyze_traffic(w.traffic_analyzer,
                             get_active_flows(w.traffic_inspector), t)}
\* A plausible slip: the proc snapshot is applied before the live packets
\* are pulled.
update_data_connections_first(w, results, proc_read, stats_read, t) ==
    UNION {UNION {{[w3 EXCEPT !.app.last_update = t] :
                     w3 \in update_analysis(update_statistics(w2, stats_read, t), t)} :
                    w2 \in update_capture(w1, results, t)} :
             w1 \in update_connections(w, proc_read, t)}

\* App::update_data, followed by the loop's self.last_update = now: the
\* worlds it may leave.
update_data(w, results, proc_read, stats_read, t) ==
    UNION {UNION {{[w3 EXCEPT !.app.last_update = t] :
                     w3 \in update_analysis(update_statistics(w2, stats_read, t), t)} :
                    w2 \in update_connections(w1, proc_read, t)} :
             w1 \in update_capture(w, results, t)}

\* @@COMPONENTS-END
-----------------------------------------------------------------------------
(* Bounds of the exploration *)

MaxFwOps == 3        \* firewall operations in a run of SpecFw
MaxTime == 2         \* the clock stops advancing here
MaxCtOps == 3        \* tracker and classifier operations in a run of SpecCt
MaxTrafficOps == 4   \* inspector and analyzer operations in a run of SpecTraffic
MaxTrafficTime == 3  \* the clock stops advancing here in a run of SpecTraffic
MaxAppTime == 5      \* the clock stops advancing here in a run of SpecApp
MaxStatsOps == 5     \* collector operations and waits in a run of SpecStats
MaxPatternOps == 2    \* analyses of given flows in a run of SpecPatterns
MaxClassifierOps == 4 \* classifier operations in a run of SpecClassifier
MaxLocalNetworks == 5 \* local networks of the inspector in a run of SpecDirection
MaxBurstOps == 11     \* analyses in a run of SpecBurst
BurstMaxSamples == 10 \* max_samples of the analyzer in a run of SpecBurst

-----------------------------------------------------------------------------
(* Inputs *)

\* Rules given to add_rule: the two rules of the priority scenario, a
\* high-priority Log rule, and a template.
BlockSsh200 ==
    Rule(1, "Block SSH", "Block", "Inbound", "TCP",
         None, None, None, Some({22}), 200)
AllowTcp100 ==
    Rule(2, "Low", "Allow", "Inbound", "TCP", None, None, None, None, 100)
LogAll255 ==
    Rule(7, "Log first", "Log", "Bidirectional", "Any",
         None, None, None, None, 255)
AddableRules == {BlockSsh200, AllowTcp100, LogAll255, block_all_incoming}

\* Rule lists an engine is given before its rules are matched: rules that
\* constrain the protocol, the direction and each of the four sets.
DnsReplies ==
    Rule(8, "DNS replies", "Allow", "Bidirectional", "UDP",
         None, None, Some({53}), None, 150)
MatchRuleLists ==
    {<<BlockSsh200>>, <<allow_localhost, BlockSsh200>>, <<DnsReplies, AllowTcp100>>,
     <<LogAll255, block_all_incoming>>, <<DnsReplies>>}

\* The packet fields matches_packet is called with: an inbound SSH packet,
\* the same with one field changed at a time, and loopback traffic.
MatchFields(src_ip, dst_ip, src_port, dst_port, protocol, direction) ==
    [src_ip |-> src_ip, dst_ip |-> dst_ip, src_port |-> src_port,
     dst_port |-> dst_port, protocol |-> protocol, direction |-> direction]
MatchInputs ==
    {MatchFields(IpRemote, IpLan1, 12345, 22, "TCP", "Inbound"),
     MatchFields(IpLoopback, IpLan1, 12345, 22, "TCP", "Inbound"),
     MatchFields(IpRemote, IpLoopback, 12345, 22, "TCP", "Inbound"),
     MatchFields(IpRemote, IpLan1, 53, 22, "TCP", "Inbound"),
     MatchFields(IpRemote, IpLan1, 12345, 80, "TCP", "Inbound"),
     MatchFields(IpRemote, IpLan1, 12345, 22, "UDP", "Inbound"),
     MatchFields(IpRemote, IpLan1, 12345, 22, "Any", "Inbound"),
     MatchFields(IpRemote, IpLan1, 12345, 22, "TCP", "Outbound"),
     MatchFields(IpRemote, IpLan1, 53, 40000, "UDP", "Inbound"),
     MatchFields(IpRemote, IpLan1, 0, 0, "UDP", "Outbound"),
     MatchFields(IpLoopback, IpLoopback, 12345, 80, "TCP", "Outbound")}

\* Address fields of /proc/net/tcp lines as parse_address may be given them:
\* well-formed ones, lower-case digits, ports of other lengths, parts
\* missing or in excess, digits that are not hex, and signs.
AddressTexts ==
    {<<"0", "1", "0", "0", "0", "0", "7", "F", ":", "0", "0", "5", "0">>,
     <<"0", "1", "0", "1", "a", "8", "c", "0", ":", "1", "f", "9", "0">>,
     <<"0", "8", "0", "8", "0", "8", "0", "8", ":", "F", "F", "F", "F">>,
     <<"0", "1", "0", "0", "0", "0", "7", "F", ":", "5", "0">>,
     <<"0", "1", "0", "0", "0", "0", "7", "F", ":", "1", "0", "0", "0", "0">>,
     <<"0", "1", "0", "0", "0", "0", "7", "F", ":">>,
     <<"0", "1", "0", "0", "0", "0", "7", "F">>,
     <<"0", "1", "0", "0", "0", "0", "7", "F", ":", "0", "0", "5", "0", ":", "1">>,
     <<"1", "0", "0", "0", "0", "7", "F", ":", "0", "0", "5", "0">>,
     <<"0", "0", "1", "0", "0", "0", "0", "7", "F", ":", "0", "0", "5", "0">>,
     <<"0", "1", "0", "0", "0", "0", "7", "G", ":", "0", "0", "5", "0">>,
     <<"0", "1", "0", "0", "0", "0", "7", "F", ":", "0", "x", "5", "0">>,
     <<"+", "1", "+", "1", "+", "1", "+", "1", ":", "0", "0", "5", "0">>,
     <<"0", "1", "0", "0", "0", "0", "7", "F", ":", "+", "0", "5", "0">>,
     <<"0", "1", "0", "0", "0", "0", "7", "F", ":", "-", "0", "5", "0">>,
     <<>>}

\* Rule lists an engine is given before its rules are exported: none, rules
\* of equal priority, rules given out of priority order, and rules with
\* sets of addresses and ports.
ExportRuleLists ==
    {<<>>, <<block_all_incoming, BlockSsh200, LogAll255>>,
     <<AllowTcp100, allow_http_https>>, <<allow_localhost, DnsReplies>>}

\* Texts given to import_rules besides exported ones: text that is not
\* JSON, JSON that is not a list, a rule without its action, a rule with an
\* action that does not exist, and a rule after a well-formed one whose
\* priority is not a u8.
JsonRule(name, action, priority) ==
    JObject([id |-> 9, name |-> name, enabled |-> TRUE, action |-> action,
             direction |-> "Inbound", protocol |-> "TCP", priority |-> priority,
             match_count |-> 0])
MalformedTexts ==
    {None, Some(JNull),
     Some(JArray(<<JObject([id |-> 9, name |-> "No action", enabled |-> TRUE,
                            direction |-> "Inbound", protocol |-> "TCP",
                            priority |-> 10, match_count |-> 0])>>)),
     Some(JArray(<<JsonRule("Drop", "Drop", 10)>>)),
     Some(JArray(<<JsonRule("Fine", "Allow", 10), JsonRule("Wide", "Allow", 300)>>))}

\* What import_rules is given: text that does not deserialize, an empty
\* list, and a list whose rules carry ids of their own.
ImportTexts ==
    {None, Some(<<>>), Some(<<AllowTcp100, [BlockSsh200 EXCEPT !.id = 2]>>)}

PktSshIn   == Packet("TCP", Some(IpRemote), Some(12345), Some(IpLan1), Some(22), 64)
PktHttpIn  == Packet("TCP", Some(IpRemote), Some(12345), Some(IpLan1), Some(80), 64)
PktTelnetOut == Packet("UDP", Some(IpLan100), Some(12345), Some(IpRemote), Some(23), 60)
PktBadSrc  == Packet("TCP", Some(IpBadText), Some(12345), Some(IpLan1), Some(22), 64)
PktBadDst  == Packet("TCP", Some(IpRemote), Some(12345), Some(IpBadText), Some(22), 64)
PktNoAddr  == Packet("IPv6", None, None, None, None, 80)
\* A packet between two local addresses.
PktSshLocal == Packet("TCP", Some(IpLan100), Some(12345), Some(IpLan1), Some(22), 64)
FwPackets ==
    {PktSshIn, PktHttpIn, PktTelnetOut, PktBadSrc, PktBadDst, PktNoAddr, PktSshLocal}

\* Packets for the tracker and the classifier: a TCP exchange in both
\* directions, well-known ports on either side and on both, no well-known
\* port, ports missing, other L4 tags, and an address that does not parse.
PktA      == Packet("TCP", Some(IpLan1), Some(5000), Some(IpRemote), Some(80), 64)
PktARev   == Packet("TCP", Some(IpRemote), Some(80), Some(IpLan1), Some(5000), 40)
PktDns    == Packet("UDP", Some(IpLan1), Some(5001), Some(IpRemote), Some(53), 60)
PktSshSrc == Packet("TCP", Some(IpLan100), Some(22), Some(IpRemote), Some(40000), 64)
PktBoth   == Packet("TCP", Some(IpLan100), Some(22), Some(IpRemote), Some(80), 64)
PktHigh   == Packet("UDP", Some(IpLan100), Some(40001), Some(IpRemote), Some(40000), 64)
PktIcmp   == Packet("ICMP", Some(IpLan1), None, Some(IpRemote), None, 84)
PktIgmp   == Packet("IPv4-Igmp", Some(IpLan1), None, Some(IpRemote), None, 46)
PktSrcOnly == Packet("TCP", Some(IpLan1), Some(5000), Some(IpRemote), None, 64)
PktNoPorts == Packet("UDP", Some(IpLan1), None, Some(IpRemote), None, 64)
CtPackets == {PktA, PktARev, PktBoth, PktIcmp}
ClassifierPackets ==
    {PktDns, PktSshSrc, PktBoth, PktHigh, PktIcmp, PktIgmp, PktSrcOnly, PktNoPorts}

\* Snapshots of /proc/net/tcp: the connection of PktA, seen from either
\* end, and two more.
ConnA    == TcpConnection(SocketAddr(IpLan1, 5000), SocketAddr(IpRemote, 80),
                          <<"Established">>)
ConnARev == TcpConnection(SocketAddr(IpRemote, 80), SocketAddr(IpLan1, 5000),
                          <<"TimeWait">>)
ConnSsh  == TcpConnection(SocketAddr(IpLan100, 22), SocketAddr(IpRemote, 40000),
                          <<"Listen">>)
ConnOdd  == TcpConnection(SocketAddr(IpLoopback, 6000), SocketAddr(IpLoopback, 6001),
                          <<"Unknown", 12>>)
ProcSnapshots ==
    {<<>>, <<ConnARev>>, <<ConnA, ConnARev, ConnSsh>>, <<ConnA, ConnSsh, ConnOdd>>}

\* Packets for the classifier's statistics: protocols that repeat with
\* different lengths, a synthetic packet of length 0, and packets without
\* ports or addresses.
PktTlsProbe == Packet("TCP", Some(IpLan1), Some(5000), Some(IpRemote), Some(443), 512)
AnalyzedPackets ==
    {PktA, PktARev, PktTlsProbe, PktDns, PktIcmp, PktNoAddr, PktNoPorts,
     dummy_packet(ConnA)}

\* Endpoints for the flow direction: addresses inside, at the edges of and
\* outside the networks new adds, and the networks a caller may add (None
\* for text that is not a network).
DirectionIps ==
    {IpLoopback, IpLan1, <<10, 1, 2, 3>>, <<11, 0, 0, 1>>, <<172, 15, 255, 255>>,
     <<172, 16, 0, 1>>, <<172, 31, 255, 255>>, <<172, 32, 0, 1>>,
     <<192, 169, 0, 1>>, IpLinkLoc, IpRemote}
DirectionAddrs == {SocketAddr(ip, 80) : ip \in DirectionIps}
AddedNetworks ==
    {None, Some(<<<<169, 254, 0, 0>>, 16>>), Some(<<<<8, 8, 8, 0>>, 24>>)}

\* Packets for the inspector: three flows of one source, and a packet
\* without ports.
PktLarge == Packet("TCP", Some(IpLan1), Some(5000), Some(IpRemote), Some(443), 1500)
InspectedPackets == {PktA, PktLarge, PktDns, PktIcmp}

\* Packets of one connection in both directions, and of another.
FlowPackets == {PktA, PktARev, PktDns}

\* What the packet source returns to the successive pulls of a tick:
\* nothing, a packet without ports and then an error, an exchange in both directions
\* followed by a third packet, and packets of two further connections.
PullResults ==
    {<<NoPacket>>,
     <<PacketResult(PktIcmp), CaptureError, PacketResult(PktDns)>>,
     <<PacketResult(PktA), PacketResult(PktARev), PacketResult(PktIcmp)>>,
     <<PacketResult(PktLarge), PacketResult(PktDns)>>}

\* What reading /proc/net/tcp returns in a tick: an error, one connection,
\* or three connections of one local address to three remote ports.
ConnTls == TcpConnection(SocketAddr(IpLan1, 5000), SocketAddr(IpRemote, 443),
                         <<"Established">>)
ConnDns == TcpConnection(SocketAddr(IpLan1, 5001), SocketAddr(IpRemote, 53),
                         <<"SynSent">>)
ProcReads == {None, Some(<<ConnARev>>), Some(<<ConnA, ConnTls, ConnDns>>)}

\* What reading the interface counters returns in a tick.
StatsReads(interface) ==
    {None, Some(InterfaceStats(interface, 1000, 500, 10, 5))}

\* Flows handed to analyze_traffic by a caller: a flow as inspect_packet
\* leaves it after one packet of 100 bytes.
Flow(src_ip, src_port, dst_ip, dst_port) ==
    LET src_addr == SocketAddr(src_ip, src_port)
        dst_addr == SocketAddr(dst_ip, dst_port)
    IN  [flow_id |-> generate_flow_id(src_addr, dst_addr),
         src_addr |-> src_addr, dst_addr |-> dst_addr,
         protocol |-> identify_protocol(Packet("TCP", Some(src_ip), Some(src_port),
                                               Some(dst_ip), Some(dst_port), 100)),
         direction |-> determine_flow_direction(NewTrafficInspector, src_addr, dst_addr),
         start_time |-> 0, last_seen |-> 0, packet_count |-> 1, byte_count |-> 100,
         packets_per_second |-> RatZero, bytes_per_second |-> RatZero,
         is_active |-> TRUE]

FlowMap(S) == [id \in {f.flow_id : f \in S} |-> CHOOSE f \in S : f.flow_id = id]

\* A remote source and a local one, each reaching three ports of one server,
\* and a fourth flow of the remote source to a port it already reached.
ScanR22 == Flow(IpRemote, 40000, IpLan1, 22)
ScanR23 == Flow(IpRemote, 40001, IpLan1, 23)
ScanR80 == Flow(IpRemote, 40002, IpLan1, 80)
ScanR80b == Flow(IpRemote, 40003, IpLan1, 80)
ScanL22 == Flow(IpLan100, 5000, IpLan1, 22)
ScanL23 == Flow(IpLan100, 5001, IpLan1, 23)
ScanL80 == Flow(IpLan100, 5002, IpLan1, 80)

\* Flows as inspect_packet leaves them after a second packet one second
\* after the first: an outbound flow, and a flow between two remote hosts.
Uploading ==
    [Flow(IpLan1, 5000, IpRemote, 443) EXCEPT
        !.last_seen = from_secs(1), !.packet_count = 2, !.byte_count = 200,
        !.packets_per_second = RatOfInt(2), !.bytes_per_second = RatOfInt(200)]
Transit ==
    [Flow(IpRemote, 40000, <<1, 1, 1, 1>>, 443) EXCEPT
        !.last_seen = from_secs(1), !.packet_count = 2, !.byte_count = 300,
        !.packets_per_second = RatOfInt(2), !.bytes_per_second = RatOfInt(300)]

\* The maps of flows given: none; two ports of one source; three ports;
\* three flows on two ports; four flows on three ports; four flows on two
\* ports and two sources; two sources on three ports each; flows with a
\* rate, without and with one of unknown direction.
GivenFlows ==
    {FlowMap({}),
     FlowMap({Uploading}),
     FlowMap({Uploading, Transit}),
     FlowMap({ScanR22, ScanR23}),
     FlowMap({ScanR22, ScanR23, ScanR80}),
     FlowMap({ScanR22, ScanR80, ScanR80b}),
     FlowMap({ScanR22, ScanR23, ScanR80, ScanR80b}),
     FlowMap({ScanR22, ScanR80, ScanR80b, ScanL22}),
     FlowMap({ScanR22, ScanR23, ScanR80, ScanL22, ScanL23, ScanL80})}

\* The burst thresholds the analyzer is configured with: below the default,
\* the default, and above it.
BurstThresholds == {9, 10, 12}

\* The flows of an analysis over a long history: none, and one with a rate.
BurstFlows == {FlowMap({}), FlowMap({Uploading})}

\* What update_interface_stats is given: no interface, an interface's
\* counters, and later counters of which rx has restarted from zero while
\* tx has grown.
InterfaceReadings ==
    {EmptyMap,
     MapPut(EmptyMap, "eth0", InterfaceStats("eth0", 1000, 500, 10, 5)),
     MapPut(EmptyMap, "eth0", InterfaceStats("eth0", 400, 800, 4, 8))}

\* The totals update_packet_stats is given: <<packets, bytes>>.
PacketTotals == {<<10, 1000>>, <<30, 4000>>}

-----------------------------------------------------------------------------
(* The state after construction *)

Op(name, arg, ret) == [name |-> name, arg |-> arg, ret |-> ret]

Init ==
    /\ now = 0
    /\ firewall_engine = NewFirewallEngine(0)
    /\ connection_tracker = NewConnectionTracker
    /\ traffic_inspector = NewTrafficInspector
    /\ traffic_analyzer = NewTrafficAnalyzer(0)
    /\ app = NewApp(TRUE, 0)
    /\ op = Op("new", <<>>, <<>>)
    /\ pushed = [fw |-> <<>>, events |-> <<>>, history |-> <<>>,
                 samples |-> <<>>, patterns |-> <<>>, analysis |-> None,
                 analyzed |-> <<>>, baselines |-> <<>>]
    /\ steps = [fw |-> 0, ct |-> 0, traffic |-> 0, stats |-> 0, patterns |-> 0,
                classifier |-> 0]

-----------------------------------------------------------------------------
(* Firewall operations *)

FwStep == steps.fw < MaxFwOps /\ steps' = [steps EXCEPT !.fw = @ + 1]
FwFrame == UNCHANGED <<connection_tracker, traffic_inspector,
                       traffic_analyzer, app, now>>

AddRule ==
    \E rule \in AddableRules :
        /\ FwStep
        /\ firewall_engine' = add_rule(firewall_engine, rule)
        /\ op' = Op("add_rule", rule, firewall_engine'.rule_counter)
        /\ UNCHANGED pushed /\ FwFrame

RemoveRule ==
    \E id \in 1..(firewall_engine.rule_counter + 1) :
        LET r == remove_rule(firewall_engine, id) IN
        /\ FwStep
        /\ firewall_engine' = r.engine
        /\ op' = Op("remove_rule", id, r.ret)
        /\ UNCHANGED pushed /\ FwFrame

EnableRule ==
    \E id \in 1..(firewall_engine.rule_counter + 1) :
        LET r == enable_rule(firewall_engine, id) IN
        /\ FwStep
        /\ firewall_engine' = r.engine
        /\ op' = Op("enable_rule", id, r.ret)
        /\ UNCHANGED pushed /\ FwFrame

DisableRule ==
    \E id \in 1..(firewall_engine.rule_counter + 1) :
        LET r == disable_rule(firewall_engine, id) IN
        /\ FwStep
        /\ firewall_engine' = r.engine
        /\ op' = Op("disable_rule", id, r.ret)
        /\ UNCHANGED pushed /\ FwFrame

LoadDefaultRules ==
    /\ FwStep
    /\ firewall_engine' = load_default_rules(firewall_engine)
    /\ op' = Op("load_default_rules", <<>>, <<>>)
    /\ UNCHANGED pushed /\ FwFrame

ImportRules ==
    \E parsed \in ImportTexts :
        LET r == import_rules(firewall_engine, parsed) IN
        /\ FwStep
        /\ firewall_engine' = r.engine
        /\ op' = Op("import_rules", parsed, r.ret)
        /\ UNCHANGED pushed /\ FwFrame

ResetStats ==
    /\ FwStep
    /\ firewall_engine' = reset_stats(firewall_engine, now)
    /\ op' = Op("reset_stats", <<>>, <<>>)
    /\ UNCHANGED pushed /\ FwFrame

ClearEvents ==
    /\ FwStep
    /\ firewall_engine' = clear_events(firewall_engine)
    /\ op' = Op("clear_events", <<>>, <<>>)
    /\ pushed' = [pushed EXCEPT !.fw = <<>>]
    /\ FwFrame

SetEnabled ==
    \E flag \in BOOLEAN :
        /\ FwStep
        /\ firewall_engine' = set_enabled(firewall_engine, flag)
        /\ op' = Op("set_enabled", flag, <<>>)
        /\ UNCHANGED pushed /\ FwFrame

ProcessPacket ==
    \E packet \in FwPackets :
        LET r == process_packet(firewall_engine, packet, now) IN
        /\ FwStep
        /\ firewall_engine' = r.engine
        /\ op' = Op("process_packet", packet, r.ret)
        /\ pushed' = [pushed EXCEPT !.fw = @ \o r.events]
        /\ FwFrame

\* Time passes between operations.
AdvanceClock ==
    /\ now < MaxTime
    /\ now' = now + 1
    /\ UNCHANGED <<firewall_engine, connection_tracker, traffic_inspector,
                   traffic_analyzer, app, op, pushed, steps>>

FwNext ==
    \/ AddRule \/ RemoveRule \/ EnableRule \/ DisableRule
    \/ LoadDefaultRules \/ ImportRules \/ ResetStats \/ ClearEvents
    \/ SetEnabled \/ ProcessPacket \/ AdvanceClock

SpecFw == Init /\ [][FwNext]_vars

-----------------------------------------------------------------------------
(* Connection tracker and classifier operations *)

CtStep == steps.ct < MaxCtOps /\ steps' = [steps EXCEPT !.ct = @ + 1]
CtFrame == UNCHANGED <<firewall_engine, traffic_inspector, traffic_analyzer,
                       app, now, pushed>>

TrackPacket ==
    \E packet \in CtPackets :
        /\ CtStep
        /\ connection_tracker' = track_packet(connection_tracker, packet, now)
        /\ op' = Op("track_packet", packet, <<>>)
        /\ CtFrame

UpdateFromProc ==
    \E tcp_connections \in ProcSnapshots :
        \E r \in update_from_proc(connection_tracker, tcp_connections, now) :
            /\ CtStep
            /\ connection_tracker' = r.tracker
            /\ op' = Op("update_from_proc", tcp_connections,
                        [dropped |-> r.dropped, evicted |-> r.evicted])
            /\ CtFrame

\* get_protocol_analyzer().identify_protocol(&packet): reads, writes nothing.
IdentifyProtocol ==
    \E packet \in ClassifierPackets :
        /\ CtStep
        /\ op' = Op("identify_protocol", packet, identify_protocol(packet))
        /\ UNCHANGED connection_tracker
        /\ CtFrame

CtNext == TrackPacket \/ UpdateFromProc \/ IdentifyProtocol \/ AdvanceClock

SpecCt == Init /\ [][CtNext]_vars

-----------------------------------------------------------------------------
(* Flow inspector and traffic analyzer operations *)

TrafficStep ==
    steps.traffic < MaxTrafficOps /\ steps' = [steps EXCEPT !.traffic = @ + 1]

\* inspect_packet with the protocol the classifier gives the packet.
InspectPacket ==
    \E packet \in InspectedPackets :
        \E r \in inspect_packet(traffic_inspector, packet,
                                 identify_protocol(packet), now) :
            /\ TrafficStep
            /\ traffic_inspector' = r.inspector
            /\ op' = Op("inspect_packet", packet, <<>>)
            /\ pushed' = [pushed EXCEPT !.events = @ \o r.events,
                                        !.history = @ \o r.ended]
            /\ UNCHANGED <<firewall_engine, connection_tracker,
                           traffic_analyzer, app, now>>

\* analyze_traffic over the inspector's active flows.
AnalyzeTraffic ==
    \E r \in analyze_traffic(traffic_analyzer,
                              get_active_flows(traffic_inspector), now) :
        /\ TrafficStep
        /\ traffic_analyzer' = r.analyzer
        /\ op' = Op("analyze_traffic", r.cached, r.ret)
        /\ pushed' = [pushed EXCEPT !.samples = @ \o r.samples,
                                    !.patterns = @ \o r.patterns,
                                    !.analysis = IF r.cached THEN @ ELSE Some(r.ret)]
        /\ UNCHANGED <<firewall_engine, connection_tracker,
                       traffic_inspector, app, now>>

\* Time passes between operations, long enough for a flow to expire.
TrafficClock ==
    /\ now < MaxTrafficTime
    /\ now' = now + 1
    /\ UNCHANGED <<firewall_engine, connection_tracker, traffic_inspector,
                   traffic_analyzer, app, op, pushed, steps>>

TrafficNext == InspectPacket \/ AnalyzeTraffic \/ TrafficClock

SpecTraffic == Init /\ [][TrafficNext]_vars

-----------------------------------------------------------------------------
(* The driver: App::run's loop *)

\* The App as main builds it: the firewall is an opt-in feature, and the
\* capture device may fail to open.
InitApp ==
    \E capture_opened \in BOOLEAN, firewall_enabled \in BOOLEAN :
        /\ now = 0
        /\ firewall_engine = NewAppFirewall(firewall_enabled, 0)
        /\ connection_tracker = NewConnectionTracker
        /\ traffic_inspector = NewTrafficInspector
        /\ traffic_analyzer = NewTrafficAnalyzer(0)
        /\ app = NewApp(capture_opened, 0)
        /\ op = Op("new", <<capture_opened, firewall_enabled>>,
                    initialize_capture(with_advanced_features(0),
                                       capture_opened).ret)
        /\ pushed = [fw |-> <<>>, events |-> <<>>, history |-> <<>>,
                     samples |-> <<>>, patterns |-> <<>>, analysis |-> None,
                 analyzed |-> <<>>, baselines |-> <<>>]
        /\ steps = [fw |-> 0, ct |-> 0, traffic |-> 0, stats |-> 0, patterns |-> 0,
                classifier |-> 0]

\* if self.last_update.elapsed() >= Duration::from_millis(1000)
\*     { self.update_data(); self.last_update = Instant::now(); }
Tick ==
    /\ now - app.last_update >= from_secs(1)
    /\ \E results \in (IF IsSome(app.capture_engine) THEN PullResults ELSE {<<>>}),
          proc_read \in ProcReads,
          stats_read \in StatsReads(app.interface) :
         \E w \in update_data(World(firewall_engine, connection_tracker,
                                    traffic_inspector, traffic_analyzer, app),
                              results, proc_read, stats_read, now) :
            /\ firewall_engine' = w.firewall_engine
            /\ connection_tracker' = w.connection_tracker
            /\ traffic_inspector' = w.traffic_inspector
            /\ traffic_analyzer' = w.traffic_analyzer
            /\ app' = w.app
            /\ op' = Op("update_data",
                        [results |-> results, proc_read |-> proc_read,
                         stats_read |-> stats_read],
                        [pulled |-> w.pulled])
            /\ pushed' = [pushed EXCEPT !.fw = @ \o w.fw_events,
                                        !.events = @ \o w.events,
                                        !.history = @ \o w.ended,
                                        !.samples = @ \o w.samples,
                                        !.patterns = @ \o w.patterns]
            /\ UNCHANGED <<now, steps>>

\* The loop waits for input (event::poll) while time passes.
Sleep ==
    /\ now < MaxAppTime
    /\ now' = now + 1
    /\ UNCHANGED <<firewall_engine, connection_tracker, traffic_inspector,
                   traffic_analyzer, app, op, pushed, steps>>

AppNext == Tick \/ Sleep

SpecApp == InitApp /\ [][AppNext]_vars

-----------------------------------------------------------------------------
(* Statistics collector operations *)

StatsStep == steps.stats < MaxStatsOps /\ steps' = [steps EXCEPT !.stats = @ + 1]
StatsFrame == UNCHANGED <<firewall_engine, connection_tracker, traffic_inspector,
                          traffic_analyzer, pushed>>

\* update_interface_stats; pushed.baselines keeps the maps it was given in
\* a run of SpecStats, each with the time of the call.
UpdateInterfaceStats ==
    \E interface_stats \in InterfaceReadings :
        LET r == update_interface_stats(app.statistics_collector,
                                        interface_stats, now) IN
        /\ StatsStep
        /\ app' = [app EXCEPT !.statistics_collector = r.collector,
                              !.interface_metrics = r.ret]
        /\ op' = Op("update_interface_stats", interface_stats, r.ret)
        /\ pushed' = [pushed EXCEPT !.baselines =
                          Append(@, [at |-> now, stats |-> interface_stats])]
        /\ UNCHANGED <<firewall_engine, connection_tracker, traffic_inspector,
                       traffic_analyzer, now>>

UpdatePacketStats ==
    \E totals \in PacketTotals :
        /\ StatsStep
        /\ app' = [app EXCEPT !.statistics_collector =
                       update_packet_stats(@, totals[1], totals[2], now)]
        /\ op' = Op("update_packet_stats", totals, <<>>)
        /\ UNCHANGED now /\ StatsFrame

\* calculate_rates reads the collector and the clock, and writes nothing.
CalculateRates ==
    /\ StatsStep
    /\ op' = Op("calculate_rates", <<>>,
                calculate_rates(app.statistics_collector, now))
    /\ UNCHANGED <<app, now>> /\ StatsFrame

\* Time passes between operations: an instant, the rate window, or the
\* history window.
StatsClock ==
    \E dt \in {1, from_secs(RateWindowSecs), from_secs(HistoryWindowSecs)} :
        /\ StatsStep
        /\ now' = now + dt
        /\ UNCHANGED <<app, op>> /\ StatsFrame

StatsNext ==
    UpdateInterfaceStats \/ UpdatePacketStats \/ CalculateRates \/ StatsClock

SpecStats == Init /\ [][StatsNext]_vars

-----------------------------------------------------------------------------
(* The analyzer on flows given by its caller *)

AnalyzeGiven ==
    \E flows \in GivenFlows :
        \E r \in analyze_traffic(traffic_analyzer, flows, now) :
            /\ steps.patterns < MaxPatternOps
            /\ steps' = [steps EXCEPT !.patterns = @ + 1]
            /\ traffic_analyzer' = r.analyzer
            /\ op' = Op("analyze_flows", flows,
                        [cached |-> r.cached, analysis |-> r.ret,
                         detected |-> r.patterns])
            /\ pushed' = [pushed EXCEPT !.samples = @ \o r.samples,
                                        !.patterns = @ \o r.patterns,
                                        !.analysis = IF r.cached THEN @ ELSE Some(r.ret)]
            /\ UNCHANGED <<firewall_engine, connection_tracker,
                           traffic_inspector, app, now>>

PatternsNext == AnalyzeGiven \/ AdvanceClock

SpecPatterns == Init /\ [][PatternsNext]_vars

-----------------------------------------------------------------------------
(* The classifier's own operations, on the analyzer the tracker owns *)

ClassifierStep ==
    /\ steps.classifier < MaxClassifierOps
    /\ steps' = [steps EXCEPT !.classifier = @ + 1]
ClassifierFrame == UNCHANGED <<firewall_engine, traffic_inspector,
                               traffic_analyzer, app, now>>

\* analyze_packet; pushed.analyzed keeps the lengths analysed since the
\* analyzer was created or reset.
AnalyzePacket ==
    \E packet \in AnalyzedPackets :
        LET r == analyze_packet(connection_tracker.protocol_analyzer, packet)
        IN  /\ ClassifierStep
            /\ connection_tracker' =
                   [connection_tracker EXCEPT !.protocol_analyzer = r.analyzer]
            /\ op' = Op("analyze_packet", packet, r.ret)
            /\ pushed' = [pushed EXCEPT !.analyzed = Append(@, packet.length)]
            /\ ClassifierFrame

ResetStatistics ==
    /\ ClassifierStep
    /\ connection_tracker' =
           [connection_tracker EXCEPT
              !.protocol_analyzer = reset_statistics(@)]
    /\ op' = Op("reset_statistics", <<>>, <<>>)
    /\ pushed' = [pushed EXCEPT !.analyzed = <<>>]
    /\ ClassifierFrame

GetTotals ==
    /\ ClassifierStep
    /\ op' = Op("get_totals", <<>>,
                <<get_total_packets(connection_tracker.protocol_analyzer),
                  get_total_bytes(connection_tracker.protocol_analyzer)>>)
    /\ UNCHANGED <<connection_tracker, pushed>>
    /\ ClassifierFrame

ClassifierNext == AnalyzePacket \/ ResetStatistics \/ GetTotals

SpecClassifier == Init /\ [][ClassifierNext]_vars

-----------------------------------------------------------------------------
(* Export of an engine's rules and import into a fresh engine.  The        *)
(* exporting engine was built one tick before the run starts.              *)

InitExport ==
    \E list \in ExportRuleLists :
        /\ now = 1
        /\ firewall_engine = add_rules(NewFirewallEngine(0), list)
        /\ connection_tracker = NewConnectionTracker
        /\ traffic_inspector = NewTrafficInspector
        /\ traffic_analyzer = NewTrafficAnalyzer(0)
        /\ app = NewApp(TRUE, 0)
        /\ op = Op("add_rules", list, <<>>)
        /\ pushed = [fw |-> <<>>, events |-> <<>>, history |-> <<>>,
                     samples |-> <<>>, patterns |-> <<>>, analysis |-> None,
                     analyzed |-> <<>>, baselines |-> <<>>]
        /\ steps = [fw |-> 0, ct |-> 0, traffic |-> 0, stats |-> 0, patterns |-> 0,
                    classifier |-> 0]

\* export_rules; the result keeps the text and the engine it was taken from.
ExportRules ==
    \E json \in export_rules(firewall_engine) :
        /\ op' = Op("export_rules", <<>>, [json |-> json, engine |-> firewall_engine])
        /\ UNCHANGED <<firewall_engine, pushed, steps>>
        /\ FwFrame

\* import_rules of the exported text into an engine made by
\* FirewallEngine::new
ImportExported ==
    /\ op.name = "export_rules"
    /\ LET r == import_rules_json(NewFirewallEngine(now), Some(op.ret.json))
       IN  /\ firewall_engine' = r.engine
           /\ op' = Op("import_exported",
                       [json |-> op.ret.json, exported |-> op.ret.engine.rules],
                       r.ret)
    /\ pushed' = [pushed EXCEPT !.fw = <<>>]
    /\ FwStep
    /\ FwFrame

\* import_rules of a text that does not parse
ImportMalformed ==
    \E json \in MalformedTexts :
        LET r == import_rules_json(firewall_engine, json)
        IN  /\ FwStep
            /\ firewall_engine' = r.engine
            /\ op' = Op("import_rules_json", json, r.ret)
            /\ UNCHANGED pushed /\ FwFrame

ExportNext ==
    \/ ExportRules \/ ImportExported \/ ImportMalformed
    \/ ProcessPacket \/ DisableRule

SpecExport == InitExport /\ [][ExportNext]_vars

-----------------------------------------------------------------------------
(* The /proc/net parser's functions, as parse_tcp_line and the tracker      *)
(* apply them to the fields of a line                                       *)

ProcFrame == UNCHANGED <<firewall_engine, connection_tracker, traffic_inspector,
                         traffic_analyzer, app, now, pushed, steps>>

ParseAddress ==
    \E addr_str \in AddressTexts :
        /\ op' = Op("parse_address", addr_str, parse_address(addr_str))
        /\ ProcFrame

\* parse_tcp_state on the state byte of a line, and convert_tcp_state on its
\* result as update_from_proc calls it.
ParseTcpState ==
    \E state \in 0..255 :
        /\ op' = Op("parse_tcp_state", state,
                    [state |-> parse_tcp_state(state),
                     connection_state |-> convert_tcp_state(parse_tcp_state(state))])
        /\ ProcFrame

ProcNext == ParseAddress \/ ParseTcpState

SpecProc == Init /\ [][ProcNext]_vars

-----------------------------------------------------------------------------
(* Rule matching, on engines that were given a list of rules *)

InitMatch ==
    \E list \in MatchRuleLists :
        /\ now = 0
        /\ firewall_engine = add_rules(NewFirewallEngine(0), list)
        /\ connection_tracker = NewConnectionTracker
        /\ traffic_inspector = NewTrafficInspector
        /\ traffic_analyzer = NewTrafficAnalyzer(0)
        /\ app = NewApp(TRUE, 0)
        /\ op = Op("add_rules", list, <<>>)
        /\ pushed = [fw |-> <<>>, events |-> <<>>, history |-> <<>>,
                     samples |-> <<>>, patterns |-> <<>>, analysis |-> None,
                     analyzed |-> <<>>, baselines |-> <<>>]
        /\ steps = [fw |-> 0, ct |-> 0, traffic |-> 0, stats |-> 0, patterns |-> 0,
                    classifier |-> 0]

\* rule.matches_packet(...) on a rule of the engine; nothing is written.
MatchesPacket ==
    \E i \in 1..Len(firewall_engine.rules), f \in MatchInputs :
        /\ op' = Op("matches_packet", [rule |-> firewall_engine.rules[i], fields |-> f],
                    matches_packet(firewall_engine.rules[i], f.src_ip, f.dst_ip,
                                   f.src_port, f.dst_port, f.protocol, f.direction))
        /\ UNCHANGED <<firewall_engine, pushed, steps>>
        /\ FwFrame

MatchNext == MatchesPacket \/ EnableRule \/ DisableRule

SpecMatch == InitMatch /\ [][MatchNext]_vars

-----------------------------------------------------------------------------
(* The inspector over packets of one connection in both directions *)

InspectFlowPacket ==
    \E packet \in FlowPackets :
        \E r \in inspect_packet(traffic_inspector, packet,
                                 identify_protocol(packet), now) :
            /\ TrafficStep
            /\ traffic_inspector' = r.inspector
            /\ op' = Op("inspect_packet", packet, <<>>)
            /\ pushed' = [pushed EXCEPT !.events = @ \o r.events,
                                        !.history = @ \o r.ended]
            /\ UNCHANGED <<firewall_engine, connection_tracker,
                           traffic_analyzer, app, now>>

FlowsNext == InspectFlowPacket \/ TrafficClock

SpecFlows == Init /\ [][FlowsNext]_vars

-----------------------------------------------------------------------------
(* The analyzer over a long sample history *)

\* An analyzer that samples at every call and keeps BurstMaxSamples samples,
\* with one of the burst thresholds; each analysis is given no flow or one
\* uploading flow.
InitBurst ==
    \E burst_threshold \in BurstThresholds :
        /\ now = 0
        /\ firewall_engine = NewFirewallEngine(0)
        /\ connection_tracker = NewConnectionTracker
        /\ traffic_inspector = NewTrafficInspector
        /\ traffic_analyzer = with_config(0, BurstMaxSamples, burst_threshold, 0)
        /\ app = NewApp(TRUE, 0)
        /\ op = Op("with_config", <<0, BurstMaxSamples, burst_threshold>>, <<>>)
        /\ pushed = [fw |-> <<>>, events |-> <<>>, history |-> <<>>,
                     samples |-> <<>>, patterns |-> <<>>, analysis |-> None,
                     analyzed |-> <<>>, baselines |-> <<>>]
        /\ steps = [fw |-> 0, ct |-> 0, traffic |-> 0, stats |-> 0, patterns |-> 0,
                    classifier |-> 0]

AnalyzeSampled ==
    \E flows \in BurstFlows :
        \E r \in analyze_traffic(traffic_analyzer, flows, now) :
            /\ steps.patterns < MaxBurstOps
            /\ steps' = [steps EXCEPT !.patterns = @ + 1]
            /\ traffic_analyzer' = r.analyzer
            /\ op' = Op("analyze_traffic", flows,
                        [cached |-> r.cached, analysis |-> r.ret,
                         detected |-> r.patterns])
            /\ pushed' = [pushed EXCEPT !.samples = @ \o r.samples,
                                        !.patterns = @ \o r.patterns,
                                        !.analysis = IF r.cached THEN @ ELSE Some(r.ret)]
            /\ UNCHANGED <<firewall_engine, connection_tracker,
                           traffic_inspector, app, now>>

BurstNext == AnalyzeSampled

SpecBurst == InitBurst /\ [][BurstNext]_vars

-----------------------------------------------------------------------------
(* The inspector's flow direction under its configured local networks *)

DirectionFrame == UNCHANGED <<firewall_engine, connection_tracker,
                              traffic_analyzer, app, now, pushed, steps>>

AddLocalNetwork ==
    \E parsed \in AddedNetworks :
        LET r == add_local_network(traffic_inspector, parsed)
        IN  /\ Len(traffic_inspector.local_networks) < MaxLocalNetworks
            /\ traffic_inspector' = r.inspector
            /\ op' = Op("add_local_network", parsed, r.ret)
            /\ DirectionFrame

DetermineFlowDirection ==
    \E src \in DirectionAddrs, dst \in DirectionAddrs :
        /\ op' = Op("determine_flow_direction", <<src, dst>>,
                    determine_flow_direction(traffic_inspector, src, dst))
        /\ UNCHANGED traffic_inspector
        /\ DirectionFrame

DirectionNext == AddLocalNetwork \/ DetermineFlowDirection

SpecDirection == Init /\ [][DirectionNext]_vars

\* @@CLAIMS
-----------------------------------------------------------------------------
(* Properties of the firewall engine *)

\* The packet as the rules see it: parsed addresses, ports defaulting to 0,
\* the rule protocol of the L4 tag, the direction from the source address.
SeenProtocol(p) == IF p.protocol \in {"TCP", "UDP", "ICMP"} THEN p.protocol ELSE "Any"
SeenDirection(p) == IF is_local_ip(Unwrap(p.src_ip)) THEN "Outbound" ELSE "Inbound"
BothIpsParse(p) ==
    /\ IsSome(p.src_ip) /\ IsOctets(Unwrap(p.src_ip))
    /\ IsSome(p.dst_ip) /\ IsOctets(Unwrap(p.dst_ip))

\* A rule matches a packet: enabled, protocol Any or equal, direction
\* Bidirectional or equal, every present set contains the packet's field.
RuleMatches(rule, p) ==
    /\ rule.enabled
    /\ rule.protocol \in {"Any", SeenProtocol(p)}
    /\ rule.direction \in {"Bidirectional", SeenDirection(p)}
    /\ \A set \in {rule.source_ips} \ {None} : Unwrap(p.src_ip) \in Unwrap(set)
    /\ \A set \in {rule.destination_ips} \ {None} : Unwrap(p.dst_ip) \in Unwrap(set)
    /\ \A set \in {rule.source_ports} \ {None} :
           UnwrapOr(p.src_port, 0) \in Unwrap(set)
    /\ \A set \in {rule.destination_ports} \ {None} :
           UnwrapOr(p.dst_port, 0) \in Unwrap(set)

\* The positions of the matching rules that end the walk.
Deciding(rules, p) ==
    {i \in 1..Len(rules) :
        RuleMatches(rules[i], p) /\ rules[i].action \in {"Allow", "Block", "LogAndBlock"}}

\* C1: on an enabled engine, for a packet whose two addresses parse,
\* process_packet returns the action of the first matching rule, in stored
\* order, whose action is Allow, Block or LogAndBlock; that rule has the
\* highest priority among such rules, whatever the insertion order; matching
\* Log rules before it do not end the walk; with no such rule the result is
\* Allow.
C1_FirstDecidingRule ==
    (op.name = "process_packet" /\ firewall_engine.enabled /\ BothIpsParse(op.arg)) =>
        LET rules == firewall_engine.rules
            D == Deciding(rules, op.arg)
        IN  IF D = {} THEN op.ret = "Allow"
            ELSE \E i \in D :
                    /\ \A j \in D : i <= j /\ rules[j].priority <= rules[i].priority
                    /\ op.ret = rules[i].action

\* C1 witness: a packet was blocked by a rule that stands after a matching
\* Log rule which was inserted later than it.
C1_Witness ==
    /\ op.name = "process_packet" /\ firewall_engine.enabled
    /\ BothIpsParse(op.arg) /\ op.ret = "Block"
    /\ \E i, j \in 1..Len(firewall_engine.rules) :
          LET ri == firewall_engine.rules[i]
              rj == firewall_engine.rules[j]
          IN  /\ i < j /\ ri.id > rj.id
              /\ ri.action = "Log" /\ RuleMatches(ri, op.arg) /\ ri.match_count > 0
              /\ rj.action = "Block" /\ RuleMatches(rj, op.arg) /\ rj.match_count > 0

\* C5: the rule list is sorted by non-increasing priority, and rules of
\* equal priority stand in insertion order (ids grow with insertion).
C5_RulesSorted ==
    \A i, j \in 1..Len(firewall_engine.rules) :
        i < j =>
            LET ri == firewall_engine.rules[i]
                rj == firewall_engine.rules[j]
            IN  \/ ri.priority > rj.priority
                \/ (ri.priority = rj.priority /\ ri.id < rj.id)

\* C5 witness: after a successful removal or disabling, the list still holds
\* rules of equal priority and a rule stored before an older one.
C5_Witness ==
    /\ op.name \in {"remove_rule", "disable_rule"} /\ op.ret = TRUE
    /\ \E i, j \in 1..Len(firewall_engine.rules) :
          /\ i < j
          /\ firewall_engine.rules[i].priority = firewall_engine.rules[j].priority
    /\ \E i, j \in 1..Len(firewall_engine.rules) :
          /\ i < j
          /\ firewall_engine.rules[i].id > firewall_engine.rules[j].id

\* A process_packet step.
IsProcessPacketStep ==
    /\ steps'.fw = steps.fw + 1
    /\ op'.name = "process_packet"

\* C10: while the engine is disabled, process_packet returns Allow and
\* leaves the whole engine (statistics, event ring, every rule's match_count
\* and last_matched) as it was.
C10_DisabledChangesNothing ==
    [][(IsProcessPacketStep /\ ~firewall_engine.enabled) =>
           (op'.ret = "Allow" /\ firewall_engine' = firewall_engine)]_vars

\* C10 witness: process_packet ran on a disabled engine for a packet that an
\* enabled Block rule matches.
C10_Witness ==
    /\ op.name = "process_packet" /\ ~firewall_engine.enabled
    /\ BothIpsParse(op.arg)
    /\ \E i \in 1..Len(firewall_engine.rules) :
          /\ firewall_engine.rules[i].action = "Block"
          /\ RuleMatches(firewall_engine.rules[i], op.arg)
    /\ firewall_engine.stats.total_packets_processed = 0

-----------------------------------------------------------------------------
(* Properties of the connection tracker and the classifier *)

IsUpdateFromProcStep ==
    op'.name = "update_from_proc" /\ steps'.ct = steps.ct + 1

\* The unordered endpoint pairs of a proc snapshot, as pair keys.
SnapshotKeys(tcp_connections) ==
    {connection_key(tcp_connections[i].local_addr, tcp_connections[i].remote_addr) :
        i \in 1..Len(tcp_connections)}

Counters(conn) ==
    <<conn.bytes_sent, conn.bytes_received, conn.packets_sent, conn.packets_received>>

\* C3: after update_from_proc(L) the keys of the active connections are pair
\* keys of L, all of them but those the cap evicted (the timeout evicts none,
\* every entry having just been seen); an entry tracked earlier whose key is
\* not in L is gone, and a key that enters does so with counters at zero,
\* while an entry that stays keeps its counters.
C3_ProcReconciliation ==
    [][IsUpdateFromProcStep =>
        LET keys == SnapshotKeys(op'.arg)
            before == connection_tracker.active_connections
            after == connection_tracker'.active_connections
        IN  /\ DOMAIN after \subseteq keys
            /\ DOMAIN after = keys \ op'.ret.evicted
            /\ Cardinality(DOMAIN after)
                  = Min(Cardinality(keys), connection_tracker.max_connections)
            /\ \A k \in DOMAIN before \ keys : k \notin DOMAIN after
            /\ \A k \in DOMAIN after \ DOMAIN before :
                   Counters(after[k]) = <<0, 0, 0, 0>>
            /\ \A k \in DOMAIN after \cap DOMAIN before :
                   Counters(after[k]) = Counters(before[k])]_vars

\* A reconciliation that dropped a tracked entry missing from the snapshot
\* and evicted another to respect the cap.
C3_Witness ==
    /\ op.name = "update_from_proc"
    /\ op.ret.dropped # {}
    /\ op.ret.evicted # {}
    /\ connection_tracker.active_connections # EmptyMap

\* The verdict the classifier is to give for an L4 tag and a pair of ports.
Verdict(tag, src_port, dst_port) ==
    LET variant == IF tag = "TCP" THEN "Tcp" ELSE "Udp"
        hit(port) == IsSome(port) /\ Unwrap(port) \in DOMAIN well_known_ports
    IN  IF tag = "ICMP" THEN <<"Icmp">>
        ELSE IF tag \notin {"TCP", "UDP"} THEN <<"Unknown">>
        ELSE IF hit(dst_port) THEN well_known_ports[Unwrap(dst_port)]
        ELSE IF hit(src_port) THEN well_known_ports[Unwrap(src_port)]
        ELSE IF IsSome(dst_port) THEN <<variant, Unwrap(dst_port)>>
        ELSE IF IsSome(src_port) THEN <<variant, Unwrap(src_port)>>
        ELSE <<"Unknown">>

PacketVerdict(p) == Verdict(p.protocol, p.src_port, p.dst_port)

Trackable(p) ==
    /\ IsSome(p.src_ip) /\ IsSome(p.dst_ip) /\ IsSome(p.src_port) /\ IsSome(p.dst_port)
    /\ IsOctets(Unwrap(p.src_ip)) /\ IsOctets(Unwrap(p.dst_ip))

PacketKey(p) ==
    connection_key(SocketAddr(Unwrap(p.src_ip), Unwrap(p.src_port)),
                   SocketAddr(Unwrap(p.dst_ip), Unwrap(p.dst_port)))

\* C7: the classifier's verdict is the one fixed by the L4 tag and the ports
\* (ICMP; the well-known table by destination then source port; else the
\* port itself, destination preferred; Unknown for any other tag and for a
\* TCP or UDP packet with no port), whatever the addresses, the length and
\* the statistics accumulated so far: by identify_protocol directly, and by
\* analyze_packet as track_packet and update_from_proc record it.
C7_VerdictByTagAndPorts ==
    /\ op.name = "identify_protocol" => op.ret = PacketVerdict(op.arg)
    /\ (op.name = "track_packet" /\ Trackable(op.arg)) =>
          connection_tracker.active_connections[PacketKey(op.arg)].protocol
            = PacketVerdict(op.arg)
    /\ op.name = "update_from_proc" =>
          \A i \in 1..Len(op.arg) :
             LET key == connection_key(op.arg[i].local_addr, op.arg[i].remote_addr)
             IN  key \in DOMAIN connection_tracker.active_connections =>
                   \E j \in 1..Len(op.arg) :
                      /\ connection_key(op.arg[j].local_addr, op.arg[j].remote_addr) = key
                      /\ connection_tracker.active_connections[key].protocol
                           = Verdict("TCP", Some(op.arg[j].local_addr.port),
                                     Some(op.arg[j].remote_addr.port))

\* A packet with a well-known port on both sides classified by its
\* destination port, after statistics have accumulated.
C7_Witness ==
    /\ op.name = "track_packet"
    /\ op.arg = PktBoth
    /\ connection_tracker.active_connections[PacketKey(PktBoth)].protocol = <<"Http">>
    /\ get_total_packets(connection_tracker.protocol_analyzer) >= 2

-----------------------------------------------------------------------------
(* Properties of the traffic analyzer *)

\* C8: an analyze_traffic call made before the sample interval has elapsed
\* since the last full analysis returns what that analysis returned: the
\* same bandwidth analysis (totals, peak, average, history), the same
\* protocol breakdown and the same patterns.
C8_CachedIsLastResult ==
    (op.name = "analyze_traffic" /\ op.arg /\ IsSome(pushed.analysis)) =>
        /\ op.ret.bandwidth_analysis = Unwrap(pushed.analysis).bandwidth_analysis
        /\ op.ret.protocol_breakdown = Unwrap(pushed.analysis).protocol_breakdown
        /\ op.ret.patterns = Unwrap(pushed.analysis).patterns

-----------------------------------------------------------------------------
(* Properties of the driver's tick *)

\* C2: in a tick of an App whose firewall is enabled, the firewall's
\* total_packets_processed grows by at least the number of live packets
\* pulled from the packet source in that tick.
C2_LivePacketsReachFirewall ==
    [][(op'.name = "update_data" /\ now' = now
        /\ IsSome(firewall_engine) /\ Unwrap(firewall_engine).enabled) =>
         Unwrap(firewall_engine').stats.total_packets_processed
           >= Unwrap(firewall_engine).stats.total_packets_processed
              + Len(op'.ret.pulled)]_vars

\* C4: at the end of every tick the number of active connections is at
\* most the tracker's cap.
C4_ActiveConnectionsCapped ==
    get_connection_count(connection_tracker) <= connection_tracker.max_connections

\* Endpoints for the key functions: two hosts and two ports in every
\* combination, and a third host.
Endpoints ==
    {SocketAddr(IpLan1, 5000), SocketAddr(IpLan1, 80), SocketAddr(IpRemote, 5000),
     SocketAddr(IpRemote, 80), SocketAddr(IpLan100, 22)}

KeysAreSymmetricAndInjective ==
    \A a, b \in Endpoints :
        /\ connection_key(a, b) = connection_key(b, a)
        /\ generate_flow_id(a, b) = generate_flow_id(b, a)
        /\ generate_flow_id(a, b) = connection_key(a, b)
        /\ \A c, d \in Endpoints :
               connection_key(a, b) = connection_key(c, d) => {a, b} = {c, d}

\* C6: the pair key of (a, b) is that of (b, a) and two different
\* unordered pairs have different keys, for the tracker's key and for the
\* inspector's, which agree; so the active connections hold one entry per
\* unordered endpoint pair, filed under that pair's key, and the active
\* flows hold one flow per unordered pair, whichever directions the packets
\* of a pair came in.
C6_OneEntryPerPair ==
    /\ KeysAreSymmetricAndInjective
    /\ LET conns == connection_tracker.active_connections
       IN  \A k1 \in DOMAIN conns :
              /\ k1 = connection_key(conns[k1].remote_addr, conns[k1].local_addr)
              /\ \A k2 \in DOMAIN conns :
                     {conns[k1].local_addr, conns[k1].remote_addr}
                       = {conns[k2].local_addr, conns[k2].remote_addr} => k1 = k2
    /\ LET flows == traffic_inspector.active_flows
       IN  \A k1 \in DOMAIN flows :
              /\ k1 = generate_flow_id(flows[k1].dst_addr, flows[k1].src_addr)
              /\ \A k2 \in DOMAIN flows :
                     {flows[k1].src_addr, flows[k1].dst_addr}
                       = {flows[k2].src_addr, flows[k2].dst_addr} => k1 = k2

\* A tick that pulled a packet and then its reverse, and applied no proc
\* snapshot: one connection that counted both packets, one flow that
\* counted both.
C6_Witness ==
    /\ op.name = "update_data"
    /\ op.ret.pulled = <<PktA, PktARev>>
    /\ op.arg.proc_read = None
    /\ DOMAIN connection_tracker.active_connections = {PacketKey(PktA)}
    /\ connection_tracker.active_connections[PacketKey(PktA)].packets_sent = 2
    /\ DOMAIN traffic_inspector.active_flows = {PacketKey(PktARev)}
    /\ traffic_inspector.active_flows[PacketKey(PktA)].packet_count = 2

-----------------------------------------------------------------------------
(* Further properties of the firewall engine *)

\* C11: on an enabled engine, process_packet for a packet whose source or
\* destination address is absent or does not parse returns Allow and
\* consults no rule: the rule list (every match_count and last_matched) is
\* as it was, and no event is recorded.
C11_UnparsedIsAllowed ==
    [][(IsProcessPacketStep /\ firewall_engine.enabled /\ ~BothIpsParse(op'.arg)) =>
           /\ op'.ret = "Allow"
           /\ firewall_engine'.rules = firewall_engine.rules
           /\ firewall_engine'.recent_events = firewall_engine.recent_events
           /\ pushed'.fw = pushed.fw
           /\ firewall_engine'.stats.rules_matched
                = firewall_engine.stats.rules_matched]_vars

\* C11 witness: process_packet ran, on an enabled engine holding an enabled
\* Block rule for every protocol, for a packet one of whose addresses is
\* absent or does not parse while the other does.
C11_Witness ==
    /\ op.name = "process_packet" /\ firewall_engine.enabled
    /\ ~BothIpsParse(op.arg)
    /\ IsSome(parse_ip(op.arg.src_ip)) \/ IsSome(parse_ip(op.arg.dst_ip))
    /\ firewall_engine.stats.total_packets_processed > 0
    /\ \E i \in 1..Len(firewall_engine.rules) :
          /\ firewall_engine.rules[i].action = "Block"
          /\ firewall_engine.rules[i].enabled
          /\ firewall_engine.rules[i].protocol = "Any"
          /\ firewall_engine.rules[i].match_count = 0

-----------------------------------------------------------------------------
(* Properties of the flow inspector *)

IsInspectPacketStep ==
    op'.name = "inspect_packet" /\ steps'.traffic = steps.traffic + 1

\* What one inspect_packet call emitted and moved to the history.
EmittedEvents == SubSeq(pushed'.events, Len(pushed.events) + 1, Len(pushed'.events))
EndedFlows == SubSeq(pushed'.history, Len(pushed.history) + 1, Len(pushed'.history))

\* The active flows an inspect_packet call finds idle for longer than the
\* timeout: those last seen more than flow_timeout ago, the flow of the
\* inspected packet excepted, which the call has just seen.
FoundIdle ==
    {id \in DOMAIN traffic_inspector.active_flows :
        /\ now - traffic_inspector.active_flows[id].last_seen
             > traffic_inspector.flow_timeout
        /\ ~(Trackable(op'.arg) /\ IsSome(op'.arg.src_port) /\ id = PacketKey(op'.arg))}

\* C12: every active flow inspect_packet finds idle for longer than the flow
\* timeout is, in that call, removed from the active map and pushed on the
\* history once, as it was but with is_active = FALSE, and one FlowEnded
\* event is emitted for its id; no FlowEnded event is emitted for any other
\* flow.  After the call every active flow has is_active = TRUE and every
\* flow of the history has is_active = FALSE.
C12_IdleFlowsExpire ==
    [][IsInspectPacketStep =>
        /\ \A id \in FoundIdle :
              /\ id \notin DOMAIN traffic_inspector'.active_flows
              /\ Cardinality({i \in 1..Len(EndedFlows) : EndedFlows[i].flow_id = id}) = 1
              /\ \E i \in 1..Len(EndedFlows) :
                    EndedFlows[i] = [traffic_inspector.active_flows[id]
                                        EXCEPT !.is_active = FALSE]
              /\ Cardinality({i \in 1..Len(EmittedEvents) :
                      /\ EmittedEvents[i].event_type = "FlowEnded"
                      /\ EmittedEvents[i].flow_id = id}) = 1
        /\ \A i \in 1..Len(EmittedEvents) :
              EmittedEvents[i].event_type = "FlowEnded" =>
                  EmittedEvents[i].flow_id \in FoundIdle
        /\ Len(EndedFlows) = Cardinality(FoundIdle)
        /\ \A id \in DOMAIN traffic_inspector'.active_flows :
              traffic_inspector'.active_flows[id].is_active
        /\ \A i \in 1..Len(traffic_inspector'.flow_history) :
              ~traffic_inspector'.flow_history[i].is_active]_vars

\* C12 witness: an inspect_packet call has just ended two flows at once
\* while the flow of its own packet stays active.
C12_Witness ==
    /\ op.name = "inspect_packet" /\ Trackable(op.arg)
    /\ PacketKey(op.arg) \in DOMAIN traffic_inspector.active_flows
    /\ Len(pushed.history) >= 2 /\ Len(pushed.events) >= 2
    /\ \A i \in {Len(pushed.events) - 1, Len(pushed.events)} :
          /\ pushed.events[i].event_type = "FlowEnded"
          /\ pushed.events[i].timestamp = now
    /\ pushed.history[Len(pushed.history)].flow_id
         /= pushed.history[Len(pushed.history) - 1].flow_id

\* The FlowStarted and FlowEnded events of one flow id, in emission order.
Lifecycle(events, id) ==
    LET OfFlow(e) == e.flow_id = id /\ e.event_type \in {"FlowStarted", "FlowEnded"}
    IN  SelectSeq(events, OfFlow)

FlowIds(events) == {events[i].flow_id : i \in 1..Len(events)}

StartedIn(events) ==
    {i \in 1..Len(events) : events[i].event_type = "FlowStarted"}

\* C13: an inspect_packet call emits a FlowStarted event, one and for the
\* packet's pair key, exactly when that key is absent from the active map
\* as the call begins (the packet having both addresses and both ports), and
\* none otherwise; per flow id the FlowStarted and FlowEnded events ever
\* emitted alternate, starting with FlowStarted.
C13_FlowStartedOnCreation ==
    [][IsInspectPacketStep =>
        /\ IF Trackable(op'.arg)
              /\ PacketKey(op'.arg) \notin DOMAIN traffic_inspector.active_flows
           THEN \E i \in 1..Len(EmittedEvents) :
                   /\ StartedIn(EmittedEvents) = {i}
                   /\ EmittedEvents[i].flow_id = PacketKey(op'.arg)
           ELSE StartedIn(EmittedEvents) = {}
        /\ \A id \in FlowIds(pushed'.events) :
              LET life == Lifecycle(pushed'.events, id)
              IN  \A i \in 1..Len(life) :
                     life[i].event_type
                       = IF i % 2 = 1 THEN "FlowStarted" ELSE "FlowEnded"]_vars

\* C13 witness: a flow was started, ended and started again, and the last
\* call inspected a second packet of the restarted flow.
C13_Witness ==
    /\ op.name = "inspect_packet" /\ Trackable(op.arg)
    /\ Len(Lifecycle(pushed.events, PacketKey(op.arg))) = 3
    /\ PacketKey(op.arg) \in DOMAIN traffic_inspector.active_flows
    /\ traffic_inspector.active_flows[PacketKey(op.arg)].packet_count = 2

-----------------------------------------------------------------------------
(* Further properties of the driver's tick *)

\* The state a tick has just left: update_data ran and last_update was set
\* to the clock.
AtEndOfTick == op.name = "update_data" /\ app.last_update = now

\* C14: at the end of every tick no active connection has been idle for the
\* connection timeout or longer.
C14_IdleConnectionsEvicted ==
    AtEndOfTick =>
        \A key \in DOMAIN connection_tracker.active_connections :
            now - connection_tracker.active_connections[key].last_seen
              < connection_tracker.connection_timeout

-----------------------------------------------------------------------------
(* Further properties of the flow inspector *)

\* C15: for every active flow, bytes_per_second is at most byte_count
\* divided by max(1, elapsed seconds), the elapsed time being last_seen -
\* start_time (a fraction of a second included).
C15_FlowRateSanity ==
    \A id \in DOMAIN traffic_inspector.active_flows :
        LET flow == traffic_inspector.active_flows[id]
            elapsed == flow.last_seen - flow.start_time
            bound == Rat(flow.byte_count * TicksPerSecond, Max(TicksPerSecond, elapsed))
        IN  ~RatLess(bound, flow.bytes_per_second)

-----------------------------------------------------------------------------
(* Properties of the statistics collector *)

IsUpdateInterfaceStatsStep ==
    /\ op'.name = "update_interface_stats"
    /\ now' = now /\ steps'.stats = steps.stats + 1

\* C16: the rx and tx rates update_interface_stats returns are never
\* negative; they are 0 for an interface that has no stored baseline, a
\* rate whose counter is below its baseline is 0, and otherwise, time
\* having passed since the last update, the rate is the counter's growth
\* divided by that time.
C16_RatesNeverNegative ==
    [][IsUpdateInterfaceStatsStep =>
        \A name \in DOMAIN op'.ret :
            LET metrics == op'.ret[name]
                current == op'.arg[name]
                sc == app.statistics_collector
                known == name \in DOMAIN sc.previous_stats
                elapsed == now - sc.last_update
                expected(cur, prev) ==
                    IF cur < prev \/ elapsed = 0 THEN RatZero
                    ELSE Rat((cur - prev) * TicksPerSecond, elapsed)
            IN  /\ metrics.rx_rate_bps.num >= 0 /\ metrics.rx_rate_bps.den > 0
                /\ metrics.tx_rate_bps.num >= 0 /\ metrics.tx_rate_bps.den > 0
                /\ ~known => /\ metrics.rx_rate_bps = RatZero
                             /\ metrics.tx_rate_bps = RatZero
                /\ known =>
                     /\ metrics.rx_rate_bps
                          = expected(current.rx_bytes, sc.previous_stats[name].rx_bytes)
                     /\ metrics.tx_rate_bps
                          = expected(current.tx_bytes, sc.previous_stats[name].tx_bytes)]_vars

\* C16 witness: update_interface_stats has just returned, for an interface
\* whose rx counter restarted while its tx counter grew, an rx rate of 0 and
\* a positive tx rate.
C16_Witness ==
    /\ op.name = "update_interface_stats"
    /\ "eth0" \in DOMAIN op.ret
    /\ op.arg["eth0"].rx_bytes = 400
    /\ op.ret["eth0"].rx_rate_bps = RatZero
    /\ op.ret["eth0"].tx_rate_bps.num > 0

IsCalculateRatesStep ==
    /\ op'.name = "calculate_rates"
    /\ now' = now /\ steps'.stats = steps.stats + 1

\* The history samples taken within the last RateWindowSecs seconds.
InRateWindow(history) ==
    LET recent(entry) == entry[1] >= now - from_secs(RateWindowSecs)
    IN  SelectSeq(history, recent)

\* C17: calculate_rates returns, for packets and for bytes, the current
\* total less the total of the earliest history sample within the last 10
\* seconds, divided by 10; and zero rates when no history sample lies within
\* the last 10 seconds.
C17_RatesOverWindow ==
    [][IsCalculateRatesStep =>
        LET sc == app.statistics_collector
            rate(total, history) ==
                IF InRateWindow(history) = <<>> THEN RatZero
                ELSE Rat(saturating_sub(total, InRateWindow(history)[1][2]),
                         RateWindowSecs)
        IN  op'.ret = <<rate(sc.total_packets, sc.packet_history),
                        rate(sc.total_bytes, sc.byte_history)>>]_vars

-----------------------------------------------------------------------------
(* Properties of the traffic analyzer's pattern detection *)

SourcesOf(flows) == {flows[id].src_addr.ip : id \in DOMAIN flows}
FlowIdsFrom(flows, ip) == {id \in DOMAIN flows : flows[id].src_addr.ip = ip}
PortsReachedBy(flows, ip) == {flows[id].dst_addr.port : id \in FlowIdsFrom(flows, ip)}
PortScanners(flows) ==
    {ip \in SourcesOf(flows) : Cardinality(PortsReachedBy(flows, ip)) > TaPortScanPorts}
OfType(detected, pattern_type) ==
    {i \in 1..Len(detected) : detected[i].pattern_type = pattern_type}

\* C18: a full analysis emits a PortScan pattern exactly when some source
\* address among the given flows reaches more distinct destination ports
\* than the threshold; it then emits one PortScan pattern, which names such
\* a source and lists the ids of the flows of that source, all of them and
\* no other; and when no source has more flows than the DDoS threshold, no
\* DDoS pattern is emitted.
C18_PortScanDetection ==
    (op.name = "analyze_flows" /\ ~op.ret.cached) =>
        LET flows == op.arg
            detected == op.ret.detected
            scans == OfType(detected, "PortScan")
        IN  /\ (scans /= {}) <=> (PortScanners(flows) /= {})
            /\ Cardinality(scans) <= 1
            /\ \A i \in scans :
                  /\ detected[i].description[1] \in PortScanners(flows)
                  /\ detected[i].related_flows
                       = FlowIdsFrom(flows, detected[i].description[1])
            /\ (\A ip \in SourcesOf(flows) :
                   Cardinality(FlowIdsFrom(flows, ip)) <= traffic_analyzer.ddos_threshold)
                  => OfType(detected, "DDoSPattern") = {}

\* C18 witness: a full analysis of flows in which two sources each reach
\* more ports than the threshold, with no more flows than the DDoS
\* threshold, emitted one PortScan pattern and nothing else.
C18_Witness ==
    /\ op.name = "analyze_flows" /\ ~op.ret.cached
    /\ Cardinality(PortScanners(op.arg)) = 2
    /\ Len(op.ret.detected) = 1
    /\ op.ret.detected[1].pattern_type = "PortScan"
    /\ op.ret.detected[1].description[1] = IpLan100
    /\ Cardinality(op.ret.detected[1].related_flows) = TaPortScanPorts + 1

-----------------------------------------------------------------------------
(* Properties of the firewall's match counters and rule ids *)

\* The positions process_packet reaches and matches: the matching rules up
\* to and including the first matching rule that is not a Log rule.
Reached(rules, p) ==
    {i \in 1..Len(rules) :
        RuleMatches(rules[i], p) /\ \A j \in Deciding(rules, p) : i <= j}

RecordedEvents == SubSeq(pushed'.fw, Len(pushed.fw) + 1, Len(pushed'.fw))

\* C19: a process_packet call on an enabled engine, for a packet whose
\* addresses parse, adds 1 to the match_count of every rule it matched (the
\* matching Log rules before the terminating rule, and that rule), records
\* one event per such rule, in order, and leaves every other rule as it
\* was; and in every step the match_count of a rule that stays in the list
\* does not decrease.
C19_MatchCounts ==
    [][/\ (IsProcessPacketStep /\ firewall_engine.enabled /\ BothIpsParse(op'.arg)) =>
            LET rules == firewall_engine.rules
                hit == Reached(rules, op'.arg)
            IN  /\ Len(firewall_engine'.rules) = Len(rules)
                /\ \A i \in 1..Len(rules) :
                      firewall_engine'.rules[i] =
                          IF i \in hit
                          THEN [rules[i] EXCEPT !.match_count = @ + 1,
                                                !.last_matched = Some(now)]
                          ELSE rules[i]
                /\ Len(RecordedEvents) = Cardinality(hit)
                /\ \A i \in hit :
                      RecordedEvents[Cardinality({j \in hit : j <= i})].rule_id
                        = rules[i].id
       /\ \A i \in 1..Len(firewall_engine.rules) :
             \A j \in 1..Len(firewall_engine'.rules) :
                firewall_engine'.rules[j].id = firewall_engine.rules[i].id =>
                    firewall_engine'.rules[j].match_count
                      >= firewall_engine.rules[i].match_count]_vars

\* C19 witness: process_packet matched a Log rule and then a terminating
\* rule, each counted once, and did not reach a later rule that matches the
\* packet too.
C19_Witness ==
    /\ op.name = "process_packet" /\ firewall_engine.enabled /\ BothIpsParse(op.arg)
    /\ \E i, j, k \in 1..Len(firewall_engine.rules) :
          /\ i < j /\ j < k
          /\ firewall_engine.rules[i].action = "Log"
          /\ firewall_engine.rules[i].match_count = 1
          /\ firewall_engine.rules[j].action /= "Log"
          /\ firewall_engine.rules[j].match_count = 1
          /\ RuleMatches(firewall_engine.rules[k], op.arg)
          /\ firewall_engine.rules[k].match_count = 0
    /\ Len(pushed.fw) = 2

RuleIds(e) == {e.rules[i].id : i \in 1..Len(e.rules)}

\* C20: add_rule gives the rule the id rule_counter + 1, whatever id the
\* rule carried, and returns it; every id that enters the list in a step
\* (add_rule, import_rules, load_default_rules) is greater than the counter
\* was, hence than every id assigned before, and each rule that enters gets
\* an id of its own; so no two rules of the list share an id.
C20_FreshRuleIds ==
    [][/\ firewall_engine'.rule_counter >= firewall_engine.rule_counter
       /\ RuleIds(firewall_engine') \ RuleIds(firewall_engine)
            = (firewall_engine.rule_counter + 1)..firewall_engine'.rule_counter
       /\ Len(firewall_engine'.rules) - Len(firewall_engine.rules)
            <= firewall_engine'.rule_counter - firewall_engine.rule_counter
       /\ Cardinality(RuleIds(firewall_engine')) = Len(firewall_engine'.rules)
       /\ \A id \in RuleIds(firewall_engine') : id <= firewall_engine'.rule_counter
       /\ (op'.name = "add_rule" /\ steps'.fw = steps.fw + 1) =>
             /\ op'.ret = firewall_engine.rule_counter + 1
             /\ \E i \in 1..Len(firewall_engine'.rules) :
                   firewall_engine'.rules[i] = [op'.arg EXCEPT !.id = op'.ret]]_vars

\* C20 witness: after a removal, import_rules has just added two rules that
\* carried one and the same id, and the list holds older rules too.
C20_Witness ==
    /\ op.name = "import_rules" /\ op.ret = Some(2)
    /\ Unwrap(op.arg)[1].id = Unwrap(op.arg)[2].id
    /\ Len(firewall_engine.rules) > 2
    /\ Len(firewall_engine.rules) < firewall_engine.rule_counter
    /\ {firewall_engine.rule_counter - 1, firewall_engine.rule_counter}
         \subseteq RuleIds(firewall_engine)

-----------------------------------------------------------------------------
(* The driver without a capture engine *)

\* update_data's tick, seen from the state it leaves
IsTickStep == op'.name = "update_data" /\ now' = now

\* What the loop over the proc connections leaves in the flow inspector:
\* each connection's synthetic packet inspected, in the snapshot's order.
RECURSIVE InspectedFromProc(_, _, _)
InspectedFromProc(ti, connections, t) ==
    IF connections = <<>> THEN {ti}
    ELSE UNION {InspectedFromProc(r.inspector, Tail(connections), t) :
                  r \in inspect_packet(ti, dummy_packet(Head(connections)),
                                       identify_protocol(dummy_packet(Head(connections))), t)}

\* What the same loop leaves in the firewall engine: each connection's
\* synthetic packet evaluated, in the snapshot's order.
RECURSIVE FilteredFromProc(_, _, _)
FilteredFromProc(e, connections, t) ==
    IF connections = <<>> THEN e
    ELSE FilteredFromProc(process_packet(e, dummy_packet(Head(connections)), t).engine,
                          Tail(connections), t)

\* initialize_capture returned success although no engine was attached
StartsWithoutCapture ==
    (op.name = "new" /\ op.arg[1] = FALSE) =>
        (op.ret = "Ok" /\ ~IsSome(app.capture_engine))

\* C21: when the capture device could not be opened, initialize_capture
\* returned success and attached no capture engine, and every tick after it
\* pulls no packet, keeps the packet and byte totals at 0, and, with the
\* proc snapshot it read, updates the connection tracker from it, inspects
\* one synthetic packet per proc connection in the flow inspector and, if
\* the firewall is enabled, evaluates each of them in the firewall engine.
C21_ProcOnlyMode ==
  /\ [](StartsWithoutCapture)
  /\ [][(IsTickStep /\ ~IsSome(app.capture_engine)) =>
         /\ ~IsSome(app'.capture_engine)
         /\ op'.ret.pulled = <<>>
         /\ app'.packets_captured = 0 /\ app'.bytes_captured = 0
         /\ IsSome(op'.arg.proc_read) =>
              LET connections == Unwrap(op'.arg.proc_read)
              IN  /\ app'.current_connections = connections
                  /\ connection_tracker' \in
                       {r.tracker : r \in update_from_proc(connection_tracker,
                                                           connections, now)}
                  /\ traffic_inspector' \in
                       InspectedFromProc(traffic_inspector, connections, now)
                  /\ IsSome(firewall_engine) =>
                       firewall_engine' =
                         Some(FilteredFromProc(Unwrap(firewall_engine),
                                               connections, now))]_vars

\* Reached: a tick without a capture engine and with the firewall enabled
\* has applied a snapshot of three connections.
C21_Witness ==
    /\ AtEndOfTick
    /\ ~IsSome(app.capture_engine)
    /\ IsSome(firewall_engine)
    /\ IsSome(op.arg.proc_read)
    /\ Len(Unwrap(op.arg.proc_read)) = 3
    /\ get_connection_count(connection_tracker) >= 2
    /\ Cardinality(DOMAIN traffic_inspector.active_flows) >= 2
    /\ Unwrap(firewall_engine).stats.total_packets_processed >= 3
    /\ app.packets_captured = 0

-----------------------------------------------------------------------------
(* Properties of the classifier's statistics *)

\* A protocol's record, with zero counts when the map has none
RecordOf(pa, protocol_type) ==
    IF protocol_type \in DOMAIN pa.protocol_stats
    THEN pa.protocol_stats[protocol_type]
    ELSE [packet_count |-> 0, byte_count |-> 0]

RECURSIVE SumSeq(_)
SumSeq(s) == IF s = <<>> THEN 0 ELSE Head(s) + SumSeq(Tail(s))

\* After n calls of analyze_packet since creation or reset_statistics the
\* totals are n and the sum of the n lengths.
TotalsCountCalls ==
    /\ get_total_packets(connection_tracker.protocol_analyzer)
         = Len(pushed.analyzed)
    /\ get_total_bytes(connection_tracker.protocol_analyzer)
         = SumSeq(pushed.analyzed)

\* C22: analyze_packet adds 1 to packet_count and the packet's length to
\* byte_count on exactly the record of the protocol it returns, and leaves
\* every other record as it was; so the totals are the number of calls since
\* creation or reset_statistics and the sum of their lengths.
C22_AnalyzeCountsOnce ==
  /\ [](TotalsCountCalls)
  /\ [][op'.name = "analyze_packet" /\ steps'.classifier # steps.classifier =>
          LET before == connection_tracker.protocol_analyzer
              after == connection_tracker'.protocol_analyzer
          IN  /\ op'.ret \in DOMAIN after.protocol_stats
              /\ RecordOf(after, op'.ret).packet_count
                   = RecordOf(before, op'.ret).packet_count + 1
              /\ RecordOf(after, op'.ret).byte_count
                   = RecordOf(before, op'.ret).byte_count + op'.arg.length
              /\ DOMAIN after.protocol_stats
                   = DOMAIN before.protocol_stats \cup {op'.ret}
              /\ \A k \in DOMAIN before.protocol_stats \ {op'.ret} :
                     after.protocol_stats[k] = before.protocol_stats[k]]_vars

\* Reached: a packet was counted on a record that already had counts while
\* another protocol's record existed, as in the HTTPS packet of 512 bytes.
C22_Witness ==
    /\ op.name = "analyze_packet"
    /\ op.ret = <<"Https">>
    /\ connection_tracker.protocol_analyzer.protocol_stats[<<"Https">>]
         = [packet_count |-> 1, byte_count |-> 512]
    /\ \E k \in DOMAIN connection_tracker.protocol_analyzer.protocol_stats :
          /\ k # <<"Https">>
          /\ connection_tracker.protocol_analyzer.protocol_stats[k].packet_count = 2
    /\ Len(pushed.analyzed) = 3

-----------------------------------------------------------------------------
(* Properties of the flow direction *)

\* Membership in the configured local network set, by address range: each
\* octet of the address lies between the network's lowest and highest
\* address.
OctetBits(network, i) == Max(0, Min(8, network[2] - 8 * (i - 1)))
LowestOctet(network, i) ==
    network[1][i] - (network[1][i] % (2 ^ (8 - OctetBits(network, i))))
HighestOctet(network, i) ==
    LowestOctet(network, i) + (2 ^ (8 - OctetBits(network, i))) - 1
InLocalNetworks(ti, ip) ==
    \E n \in 1..Len(ti.local_networks) :
        \A i \in 1..4 :
            /\ LowestOctet(ti.local_networks[n], i) <= ip[i]
            /\ ip[i] <= HighestOctet(ti.local_networks[n], i)

SwappedDirection(direction) ==
    CASE direction = "Inbound" -> "Outbound"
      [] direction = "Outbound" -> "Inbound"
      [] OTHER -> direction

\* C23: the flow direction is Internal for (local, local), Outbound for
\* (local, remote), Inbound for (remote, local) and Unknown for (remote,
\* remote), local meaning membership in the configured local networks; and
\* the direction of the swapped pair is the swapped direction.
C23_DirectionTable ==
    op.name = "determine_flow_direction" =>
        LET src == op.arg[1]
            dst == op.arg[2]
            src_local == InLocalNetworks(traffic_inspector, src.ip)
            dst_local == InLocalNetworks(traffic_inspector, dst.ip)
        IN  /\ (src_local /\ dst_local) => op.ret = "Internal"
            /\ (src_local /\ ~dst_local) => op.ret = "Outbound"
            /\ (~src_local /\ dst_local) => op.ret = "Inbound"
            /\ (~src_local /\ ~dst_local) => op.ret = "Unknown"
            /\ determine_flow_direction(traffic_inspector, dst, src)
                 = SwappedDirection(op.ret)

\* Reached: with 8.8.8.0/24 added to the local networks, a flow from 8.8.8.8
\* to 172.32.0.1, just outside 172.16.0.0/12, is Outbound.
C23_Witness ==
    /\ op.name = "determine_flow_direction"
    /\ Len(traffic_inspector.local_networks) = 5
    /\ op.arg[1].ip = IpRemote
    /\ op.arg[2].ip = <<172, 32, 0, 1>>
    /\ op.ret = "Outbound"

-----------------------------------------------------------------------------
(* Properties of rule matching *)

\* A set of a rule is absent or contains the packet's field
AbsentOrContains(set, field) == set = None \/ field \in Unwrap(set)

\* The engine without its disabled rules
RECURSIVE EnabledOnly(_)
EnabledOnly(rules) ==
    IF rules = <<>> THEN <<>>
    ELSE IF Head(rules).enabled THEN <<Head(rules)>> \o EnabledOnly(Tail(rules))
    ELSE EnabledOnly(Tail(rules))
WithoutDisabledRules(e) == [e EXCEPT !.rules = EnabledOnly(@)]

\* C24: matches_packet returns true exactly when the rule is enabled, its
\* protocol is Any or the packet's, its direction is Bidirectional or the
\* packet's, and each of its four sets is absent or contains the packet's
\* field; a disabled rule never matches, and process_packet decides as if the
\* disabled rules were absent.
C24_MatchCondition ==
    /\ op.name = "matches_packet" =>
         LET rule == op.arg.rule
             f == op.arg.fields
         IN  /\ op.ret \in BOOLEAN
             /\ op.ret <=>
                  /\ rule.enabled
                  /\ rule.protocol \in {"Any", f.protocol}
                  /\ rule.direction \in {"Bidirectional", f.direction}
                  /\ AbsentOrContains(rule.source_ips, f.src_ip)
                  /\ AbsentOrContains(rule.destination_ips, f.dst_ip)
                  /\ AbsentOrContains(rule.source_ports, f.src_port)
                  /\ AbsentOrContains(rule.destination_ports, f.dst_port)
             /\ ~rule.enabled => op.ret = FALSE
    /\ \A packet \in FwPackets :
         process_packet(firewall_engine, packet, now).ret
           = process_packet(WithoutDisabledRules(firewall_engine), packet, now).ret

\* Reached: a disabled rule whose other conditions all hold is refused, and
\* the engine decides differently than it would with the rule enabled.
C24_Witness ==
    /\ op.name = "matches_packet"
    /\ ~op.arg.rule.enabled
    /\ op.ret = FALSE
    /\ op.arg.rule.action = "Block"
    /\ matches_packet([op.arg.rule EXCEPT !.enabled = TRUE],
                      op.arg.fields.src_ip, op.arg.fields.dst_ip,
                      op.arg.fields.src_port, op.arg.fields.dst_port,
                      op.arg.fields.protocol, op.arg.fields.direction)
    /\ process_packet(firewall_engine, PktSshIn, now).ret = "Allow"

-----------------------------------------------------------------------------
(* Properties of the /proc/net parser *)

\* C25: parse_tcp_state followed by convert_tcp_state takes the kernel's
\* state bytes 0x01 and 0x0A to Established, 0x02 and 0x03 to Establishing,
\* 0x04, 0x05, 0x06, 0x08, 0x09 and 0x0B to Closing, 0x07 to Closed, and
\* every other byte to Unknown.
C25_StateFolding ==
    op.name = "parse_tcp_state" =>
        op.ret.connection_state =
            IF op.arg \in {1, 10} THEN "Established"
            ELSE IF op.arg \in {2, 3} THEN "Establishing"
            ELSE IF op.arg \in {4, 5, 6, 8, 9, 11} THEN "Closing"
            ELSE IF op.arg = 7 THEN "Closed"
            ELSE "Unknown"

\* Reached: the last numbered state, 0x0B, was folded to Closing
C25_Witness ==
    /\ op.name = "parse_tcp_state"
    /\ op.arg = 11
    /\ op.ret.state = <<"Closing">>
    /\ op.ret.connection_state = "Closing"

\* A text of hex digits only
IsHexText(text) == \A i \in 1..Len(text) : text[i] \in DOMAIN HexDigits

\* The positions of the colons of a text
Colons(text) == {i \in 1..Len(text) : text[i] = ":"}

\* The form IIIIIIII:PPPP: one colon, eight hex digits before it and one to
\* four after it.
IsProcAddress(text) ==
    /\ Cardinality(Colons(text)) = 1
    /\ LET c == CHOOSE i \in Colons(text) : TRUE
       IN  /\ c = 9
           /\ IsHexText(SubSeq(text, 1, 8))
           /\ Len(text) - c \in 1..4
           /\ IsHexText(SubSeq(text, c + 1, Len(text)))

\* The byte written by two hex digits
ByteAt(text, i) == 16 * HexDigits[text[i]] + HexDigits[text[i + 1]]

\* The number written by the digits after position c
RECURSIVE NumberAfter(_, _)
NumberAfter(text, c) ==
    IF c = Len(text) THEN 0
    ELSE HexDigits[text[Len(text)]] + 16 * NumberAfter(SubSeq(text, 1, Len(text) - 1), c)

\* C26: parse_address takes IIIIIIII:PPPP to the address whose octets, in
\* display order, are the four hex bytes in reversed order, with the port
\* the hex number PPPP; and it returns no address for a text that does not
\* have exactly two colon-separated parts, an 8-digit IP part, or valid hex
\* digits.
C26_ParseAddress ==
    op.name = "parse_address" =>
        IF IsProcAddress(op.arg)
        THEN op.ret = Some(SocketAddr(<<ByteAt(op.arg, 7), ByteAt(op.arg, 5),
                                        ByteAt(op.arg, 3), ByteAt(op.arg, 1)>>,
                                      NumberAfter(op.arg, 9)))
        ELSE op.ret = None

-----------------------------------------------------------------------------
(* Properties of rule export and import *)

\* What an import keeps of a rule
KeptFields(rule) ==
    [name |-> rule.name, enabled |-> rule.enabled, action |-> rule.action,
     direction |-> rule.direction, protocol |-> rule.protocol,
     source_ips |-> rule.source_ips, destination_ips |-> rule.destination_ips,
     source_ports |-> rule.source_ports,
     destination_ports |-> rule.destination_ports,
     priority |-> rule.priority, match_count |-> rule.match_count]

\* C27: export_rules followed by import_rules into a fresh engine gives a
\* rule list of the same length and order with, position by position, the
\* same name, enabled flag, action, direction, protocol, address and port
\* sets, priority and match_count, and the ids 1..n; import_rules of a text
\* that does not parse returns an error and leaves the rule list and the
\* counters as they were.
C27_ExportImportRoundTrip ==
  /\ [](op.name = "import_exported" =>
          /\ op.ret = Some(Len(op.arg.exported))
          /\ Len(firewall_engine.rules) = Len(op.arg.exported)
          /\ \A i \in 1..Len(op.arg.exported) :
                /\ KeptFields(firewall_engine.rules[i]) = KeptFields(op.arg.exported[i])
                /\ firewall_engine.rules[i].id = i)
  /\ [][(op'.name = "import_rules_json" /\ steps'.fw # steps.fw) =>
          /\ op'.ret = None
          /\ firewall_engine'.rules = firewall_engine.rules
          /\ firewall_engine'.rule_counter = firewall_engine.rule_counter
          /\ firewall_engine'.stats = firewall_engine.stats]_vars

\* Reached: an import of exported rules of which one had matched a packet,
\* one was disabled, one had a set of two ports, and one had another id
\* than its position.
C27_Witness ==
    /\ op.name = "import_exported"
    /\ \E i \in 1..Len(op.arg.exported) : op.arg.exported[i].match_count > 0
    /\ \E i \in 1..Len(op.arg.exported) : ~op.arg.exported[i].enabled
    /\ \E i \in 1..Len(op.arg.exported) : op.arg.exported[i].id # i
    /\ \E i \in 1..Len(op.arg.exported) :
          /\ IsSome(op.arg.exported[i].destination_ports)
          /\ Cardinality(Unwrap(op.arg.exported[i].destination_ports)) = 2

-----------------------------------------------------------------------------
(* Properties of the bandwidth sample *)

\* C28: the total_bps of the sample an analysis collects is the sum of
\* bytes_per_second over all the flows given to it, which is the
\* total_bandwidth of the protocol breakdown of the same analysis, whatever
\* the flows' directions.
C28_SampleTotalIsFlowSum ==
    (op.name = "analyze_flows" /\ ~op.ret.cached) =>
        /\ pushed.samples # <<>>
        /\ pushed.samples[Len(pushed.samples)].total_bps
             = SumRate(op.arg, DOMAIN op.arg, "bytes_per_second")
        /\ pushed.samples[Len(pushed.samples)].total_bps
             = op.ret.analysis.protocol_breakdown.total_bandwidth

-----------------------------------------------------------------------------
(* Order of the work within a tick *)

\* The packets a tick pulls from what the packet source returns: those
\* before the first result that is not a packet, and at most limit of them.
RECURSIVE PulledFrom(_, _)
PulledFrom(results, limit) ==
    IF limit = 0 \/ results = <<>> \/ Head(results).kind # "packet" THEN <<>>
    ELSE <<Head(results).packet>> \o PulledFrom(Tail(results), limit - 1)

\* The tracker after the live packets, tracked in arrival order
RECURSIVE TrackedLive(_, _, _)
TrackedLive(ct, packets, t) ==
    IF packets = <<>> THEN ct
    ELSE TrackedLive(track_packet(ct, Head(packets), t), Tail(packets), t)

\* The inspectors the live packets may leave, inspected in arrival order
RECURSIVE InspectedLive(_, _, _)
InspectedLive(ti, packets, t) ==
    IF packets = <<>> THEN {ti}
    ELSE UNION {InspectedLive(r.inspector, Tail(packets), t) :
                  r \in inspect_packet(ti, Head(packets),
                                       identify_protocol(Head(packets)), t)}

\* C29: a tick pulls the live packets in arrival order, at most the pull
\* limit of them, and stops at the first result that is no packet or an
\* error; the rest of the tick still runs; and the proc snapshot is applied,
\* and its synthetic packets are inspected, on the state that all the live
\* packets of the tick have left.
C29_LiveBeforeProc ==
    [][(IsTickStep /\ IsSome(app.capture_engine)) =>
         LET pulled == PulledFrom(op'.arg.results, AppPullLimit)
             tracked == TrackedLive(connection_tracker, pulled, now)
         IN  /\ op'.ret.pulled = pulled
             /\ Len(pulled) <= AppPullLimit
             /\ app'.recent_packets
                  = LastN(app.recent_packets \o pulled, AppMaxRecentPackets)
             /\ app'.last_update = now
             /\ IsSome(app'.network_statistics)
             /\ IF IsSome(op'.arg.proc_read)
                THEN LET connections == Unwrap(op'.arg.proc_read)
                     IN  /\ app'.current_connections = connections
                         /\ connection_tracker' \in
                              {r.tracker :
                                 r \in update_from_proc(tracked, connections, now)}
                         /\ \E ti \in InspectedLive(traffic_inspector, pulled, now) :
                              traffic_inspector' \in
                                InspectedFromProc(ti, connections, now)
                ELSE /\ connection_tracker' = tracked
                     /\ traffic_inspector' \in
                          InspectedLive(traffic_inspector, pulled, now)]_vars

\* Reached: a tick pulled two packets of one connection in both directions,
\* left a third one unpulled, and applied a snapshot that holds the same
\* connection.
C29_Witness ==
    /\ AtEndOfTick
    /\ Len(op.arg.results) = 3
    /\ op.ret.pulled = <<PktA, PktARev>>
    /\ app.recent_packets = <<PktA, PktARev>>
    /\ op.arg.proc_read = Some(<<ConnARev>>)
    /\ app.current_connections = <<ConnARev>>
    /\ get_connection_count(connection_tracker) = 1

\* The sum of the per-protocol packet counts of the tracker's classifier
ClassifiedPackets(ct) == get_total_packets(ct.protocol_analyzer)

\* C30: every live packet pulled in a tick is classified once with the
\* statistics updated: the sum of the per-protocol packet_count grows by at
\* least one per live packet of the tick, and by exactly that when the tick
\* has no proc snapshot.
C30_LivePacketsClassified ==
    [][(IsTickStep /\ IsSome(app.capture_engine)) =>
         /\ ClassifiedPackets(connection_tracker')
              >= ClassifiedPackets(connection_tracker) + Len(op'.ret.pulled)
         /\ ~IsSome(op'.arg.proc_read) =>
              ClassifiedPackets(connection_tracker')
                = ClassifiedPackets(connection_tracker) + Len(op'.ret.pulled)]_vars

-----------------------------------------------------------------------------
(* Properties of the classifier's statistics under /proc updates *)

\* The entries of a proc snapshot whose endpoints classify as the protocol.
EntriesOfProtocol(tcp_connections, protocol_type) ==
    {i \in 1..Len(tcp_connections) :
        Verdict("TCP", Some(tcp_connections[i].local_addr.port),
                Some(tcp_connections[i].remote_addr.port)) = protocol_type}

SnapshotProtocols(tcp_connections) ==
    {Verdict("TCP", Some(tcp_connections[i].local_addr.port),
             Some(tcp_connections[i].remote_addr.port)) :
        i \in 1..Len(tcp_connections)}

\* C31: update_from_proc classifies each entry of the snapshot through a
\* dummy packet of length 0: no protocol's byte_count changes, whatever the
\* number of calls, and each call adds to a protocol's packet_count one for
\* every entry of the snapshot of that protocol, creating the record when
\* the protocol had none.
C31_ProcEntriesCountNoBytes ==
    [][IsUpdateFromProcStep =>
        LET before == connection_tracker.protocol_analyzer
            after == connection_tracker'.protocol_analyzer
        IN  /\ DOMAIN after.protocol_stats
                 = DOMAIN before.protocol_stats \cup SnapshotProtocols(op'.arg)
            /\ \A k \in DOMAIN after.protocol_stats :
                  /\ RecordOf(after, k).byte_count = RecordOf(before, k).byte_count
                  /\ RecordOf(after, k).packet_count
                       = RecordOf(before, k).packet_count
                           + Cardinality(EntriesOfProtocol(op'.arg, k))]_vars

\* Reached: a snapshot with two entries of one protocol and one of another
\* was taken after packets had been tracked, so that byte counts were not
\* zero and one record gained two packets in the call.
C31_Witness ==
    /\ op.name = "update_from_proc"
    /\ Len(op.arg) = 3
    /\ connection_tracker.protocol_analyzer.protocol_stats[<<"Http">>]
         = [packet_count |-> 4, byte_count |-> 104]
    /\ connection_tracker.protocol_analyzer.protocol_stats[<<"Ssh">>]
         = [packet_count |-> 1, byte_count |-> 0]

-----------------------------------------------------------------------------
(* Properties of the tracker's counters *)

\* What an operation of the tracker adds to the sent counters of the entry
\* of a key: one packet and its length when it is track_packet of a packet
\* of that pair, in either direction, and nothing otherwise.
TrackedOn(call, k) ==
    IF call.name = "track_packet" /\ Trackable(call.arg) /\ PacketKey(call.arg) = k
    THEN <<1, call.arg.length>>
    ELSE <<0, 0>>

SentCounters(conns, k) ==
    IF k \in DOMAIN conns THEN <<conns[k].packets_sent, conns[k].bytes_sent>>
    ELSE <<0, 0>>

\* C32: every entry of the tracker has bytes_received = 0 and
\* packets_received = 0 and a last_seen not earlier than its
\* established_time; an entry's packets_sent and bytes_sent start at zero
\* when it is created and grow by one packet and its length with each packet
\* tracked on its key, whichever endpoint sent it, and by nothing else, so
\* they are the number and the total length of the packets tracked on the
\* key since the entry was created and never decrease while it remains.
C32_TrackerCounters ==
  /\ [](\A k \in DOMAIN connection_tracker.active_connections :
          LET conn == connection_tracker.active_connections[k]
          IN  /\ conn.bytes_received = 0
              /\ conn.packets_received = 0
              /\ conn.last_seen >= conn.established_time)
  /\ [][\A k \in DOMAIN connection_tracker'.active_connections :
          LET before == SentCounters(connection_tracker.active_connections, k)
              after == SentCounters(connection_tracker'.active_connections, k)
              added == IF steps'.ct = steps.ct THEN <<0, 0>> ELSE TrackedOn(op', k)
          IN  /\ after[1] = before[1] + added[1]
              /\ after[2] = before[2] + added[2]]_vars

\* Reached: the reply of a tracked connection was tracked at a later time,
\* and counted as sent on the entry keyed by the first packet's endpoints.
C32_Witness ==
    /\ op.name = "track_packet"
    /\ op.arg = PktARev
    /\ \E k \in DOMAIN connection_tracker.active_connections :
          LET conn == connection_tracker.active_connections[k]
          IN  /\ conn.local_addr = SocketAddr(IpLan1, 5000)
              /\ conn.packets_sent = 2
              /\ conn.bytes_sent = 104
              /\ conn.packets_received = 0
              /\ conn.last_seen > conn.established_time

-----------------------------------------------------------------------------
(* Properties of the firewall's statistics *)

\* C33: on the firewall engine, since creation or the last reset_stats,
\* total_packets_processed = packets_allowed + packets_blocked: every
\* processed packet is counted once as allowed or as blocked, a packet whose
\* addresses do not parse and a packet matched by Log rules only included.
C33_ProcessedIsAllowedPlusBlocked ==
    firewall_engine.stats.total_packets_processed
      = firewall_engine.stats.packets_allowed + firewall_engine.stats.packets_blocked

\* C34: on the firewall engine stats.active_rules is the number of rules in
\* the list and stats.enabled_rules the number of enabled rules among them,
\* after any sequence of add_rule, remove_rule, enable_rule, disable_rule,
\* process_packet and reset_stats.
C34_RuleCountsInStats ==
    /\ firewall_engine.stats.active_rules = Len(firewall_engine.rules)
    /\ firewall_engine.stats.enabled_rules
         = Cardinality({i \in 1..Len(firewall_engine.rules) :
                           firewall_engine.rules[i].enabled})

-----------------------------------------------------------------------------
(* Properties of the burst detection *)

BurstPatterns(patterns) ==
    {i \in 1..Len(patterns) : patterns[i].pattern_type = "BurstTraffic"}

\* C35: with burst_threshold >= 10 and samples that are not negative, no
\* analysis detects a BurstTraffic pattern, whatever the sample history: the
\* mean of the last 10 samples counts the current sample, so threshold x mean
\* is at least the sum of the 10 samples, which is at least the current one.
C35_NoBurstAtDefaultThreshold ==
    (/\ traffic_analyzer.burst_threshold >= 10
     /\ \A i \in 1..Len(pushed.samples) :
            ~RatLess(pushed.samples[i].total_bps, RatZero))
      => /\ BurstPatterns(pushed.patterns) = {}
         /\ BurstPatterns(traffic_analyzer.detected_patterns) = {}

\* Reached: with the default threshold, an analysis past the tenth sampled a
\* rate after nine samples of no traffic, and detected nothing.
C35_Witness ==
    /\ op.name = "analyze_traffic" /\ ~op.ret.cached
    /\ traffic_analyzer.burst_threshold = 10
    /\ Len(pushed.samples) > BurstWindow
    /\ Len(traffic_analyzer.bandwidth_samples) >= BurstWindow
    /\ LET recent_samples == LastN(traffic_analyzer.bandwidth_samples, BurstWindow)
       IN  /\ recent_samples[BurstWindow].total_bps = RatOfInt(200)
           /\ \A i \in 1..(BurstWindow - 1) : recent_samples[i].total_bps = RatZero
    /\ op.ret.detected = <<>>

-----------------------------------------------------------------------------
(* Properties of the high-bandwidth events *)

\* The HighBandwidth events of a flow among the events from position first on.
HighBandwidthOf(events, first, flow_id) ==
    {i \in first..Len(events) :
        /\ events[i].event_type = "HighBandwidth"
        /\ events[i].flow_id = flow_id}

\* C36: a tick emits at most one HighBandwidth event for a flow, however
\* many packets of the flow it inspects while the flow's bytes_per_second
\* exceeds the threshold.
C36_OneHighBandwidthPerTick ==
    [][IsTickStep =>
        \A i \in (Len(pushed.events) + 1)..Len(pushed'.events) :
            Cardinality(HighBandwidthOf(pushed'.events, Len(pushed.events) + 1,
                                         pushed'.events[i].flow_id)) <= 1]_vars

-----------------------------------------------------------------------------
(* Properties of the flow records *)

\* The fields of a flow that are set when it is created.
FlowIdentity(flow) ==
    <<flow.flow_id, flow.src_addr, flow.dst_addr, flow.direction,
      flow.start_time, flow.is_active>>

\* The flow id of a packet, when it has one.
PacketFlowId(p) ==
    IF Trackable(p)
    THEN Some(generate_flow_id(
                  SocketAddr(Unwrap(p.src_ip), Unwrap(p.src_port)),
                  SocketAddr(Unwrap(p.dst_ip), Unwrap(p.dst_port))))
    ELSE None

\* C37: a flow that stays active across an inspect_packet call keeps its
\* flow_id, src_addr, dst_addr, direction and start_time, also when the
\* packet runs from its dst_addr to its src_addr; the call changes nothing
\* in a flow other than the packet's that stays active, and in the packet's
\* flow adds one packet and its length and sets last_seen.
C37_FlowIdentityFixed ==
    [][IsInspectPacketStep =>
        LET before == traffic_inspector.active_flows
            after == traffic_inspector'.active_flows
        IN  \A id \in DOMAIN before \cap DOMAIN after :
              /\ FlowIdentity(after[id]) = FlowIdentity(before[id])
              /\ after[id].flow_id = id
              /\ IF PacketFlowId(op'.arg) = Some(id)
                 THEN /\ after[id].packet_count = before[id].packet_count + 1
                      /\ after[id].byte_count
                           = before[id].byte_count + op'.arg.length
                      /\ after[id].last_seen = now
                 ELSE after[id] = before[id]]_vars

\* Reached: the reply of a flow's first packet was inspected later, while
\* another flow was active; the flow still runs from the first packet's
\* source.
C37_Witness ==
    /\ op.name = "inspect_packet"
    /\ op.arg = PktARev
    /\ \E id \in DOMAIN traffic_inspector.active_flows :
          LET flow == traffic_inspector.active_flows[id]
          IN  /\ flow.src_addr = SocketAddr(IpLan1, 5000)
              /\ flow.dst_addr = SocketAddr(IpRemote, 80)
              /\ flow.direction = "Outbound"
              /\ flow.packet_count = 2
              /\ flow.byte_count = 104
              /\ flow.last_seen > flow.start_time
    /\ Cardinality(DOMAIN traffic_inspector.active_flows) = 2

-----------------------------------------------------------------------------
(* Properties of the interface baselines *)

\* The growth of a counter over its baseline, per second, and 0 when the
\* counter is below the baseline.
GrowthRate(current, baseline, elapsed) ==
    IF current < baseline THEN RatZero
    ELSE Rat((current - baseline) * TicksPerSecond, elapsed)

\* C38: update_interface_stats stores the map it was given as the whole
\* baseline, so the rates it returns are measured against the map of the
\* call before it and no older one: an interface missing from that call (an
\* empty map after a failed read, for one) has rx and tx rates of 0, whatever
\* earlier calls held for it.
C38_BaselineIsLastCall ==
    [][IsUpdateInterfaceStatsStep =>
        LET given == pushed.baselines
            last == given[Len(given)]
        IN  /\ app'.statistics_collector.previous_stats = op'.arg
            /\ \A name \in DOMAIN op'.ret :
                  IF given # <<>> /\ name \in DOMAIN last.stats /\ now > last.at
                  THEN /\ op'.ret[name].rx_rate_bps
                            = GrowthRate(op'.arg[name].rx_bytes,
                                         last.stats[name].rx_bytes, now - last.at)
                       /\ op'.ret[name].tx_rate_bps
                            = GrowthRate(op'.arg[name].tx_bytes,
                                         last.stats[name].tx_bytes, now - last.at)
                  ELSE /\ op'.ret[name].rx_rate_bps = RatZero
                       /\ op'.ret[name].tx_rate_bps = RatZero]_vars

\* Reached: an interface was read, then a call held no interface, then the
\* interface was read again with counters above the first reading, time
\* having passed between the calls; the last call returned rates of 0.
C38_Witness ==
    /\ op.name = "update_interface_stats"
    /\ Len(pushed.baselines) >= 3
    /\ LET n == Len(pushed.baselines)
           older == pushed.baselines[n - 2]
           missed == pushed.baselines[n - 1]
           latest == pushed.baselines[n]
       IN  /\ "eth0" \in DOMAIN older.stats /\ "eth0" \in DOMAIN latest.stats
           /\ missed.stats = EmptyMap
           /\ older.at < missed.at /\ missed.at < latest.at
           /\ latest.stats = op.arg
           /\ latest.stats["eth0"].rx_bytes > older.stats["eth0"].rx_bytes
           /\ op.ret["eth0"].rx_rate_bps = RatZero
           /\ op.ret["eth0"].tx_rate_bps = RatZero
           /\ app.statistics_collector.previous_stats = latest.stats

-----------------------------------------------------------------------------
(* Properties of the firewall's packet direction *)

\* The local set: loopback, the private ranges and link-local addresses.
InLocalSet(ip) ==
    \/ ip[1] = 127
    \/ ip[1] = 10
    \/ ip[1] = 172 /\ 16 <= ip[2] /\ ip[2] <= 31
    \/ ip[1] = 192 /\ ip[2] = 168
    \/ ip[1] = 169 /\ ip[2] = 254

\* C39: for a packet whose two addresses parse, the direction the firewall
\* uses is Outbound if the source address is in the local set and Inbound
\* otherwise, whatever the destination: every event of the call records
\* that direction, and a rule of the other direction is not matched; so a
\* rule with direction Inbound never matches a packet whose source is
\* local, also when its destination is local.
C39_DirectionBySourceOnly ==
    [][(IsProcessPacketStep /\ firewall_engine.enabled /\ BothIpsParse(op'.arg)) =>
        LET src_ip == Unwrap(op'.arg.src_ip)
            direction == IF InLocalSet(src_ip) THEN "Outbound" ELSE "Inbound"
            other == IF InLocalSet(src_ip) THEN "Inbound" ELSE "Outbound"
            emitted == SubSeq(pushed'.fw, Len(pushed.fw) + 1, Len(pushed'.fw))
        IN  /\ \A i \in 1..Len(emitted) : emitted[i].direction = direction
            /\ Len(firewall_engine'.rules) = Len(firewall_engine.rules)
            /\ \A i \in 1..Len(firewall_engine.rules) :
                  firewall_engine.rules[i].direction = other =>
                      /\ firewall_engine'.rules[i] = firewall_engine.rules[i]
                      /\ \A j \in 1..Len(emitted) :
                             emitted[j].rule_id # firewall_engine.rules[i].id]_vars

\* Reached: a TCP packet from one local address to port 22 of another was
\* processed by an engine holding an enabled Inbound rule for that port,
\* which did not match it, and a rule of either direction, whose event
\* records Outbound; the packet was allowed.
C39_Witness ==
    /\ op.name = "process_packet" /\ firewall_engine.enabled
    /\ op.arg = PktSshLocal
    /\ op.ret = "Allow"
    /\ \E i \in 1..Len(firewall_engine.rules) :
          LET rule == firewall_engine.rules[i]
          IN  /\ rule.enabled /\ rule.direction = "Inbound"
              /\ rule.action = "Block"
              /\ rule.destination_ports = Some({22})
              /\ rule.match_count = 0
    /\ pushed.fw # <<>>
    /\ pushed.fw[Len(pushed.fw)].direction = "Outbound"
    /\ pushed.fw[Len(pushed.fw)].dst_ip = IpLan1

=============================================================================
